---- MODULE Spec2Model ----
(***************************************************************************)
(* The worker process bridge of frontend/src-tauri/src/lib.rs:             *)
(* SidecarState (a Mutex<Option<Child>> and an AtomicU64), start_sidecar   *)
(* and send_command, run by several caller threads against one worker      *)
(* process that is reached through its stdin and stdout pipes.             *)
(*                                                                         *)
(* A JSON value is named by a string ("A", "[]", "null"); an Option<T> is  *)
(* a sequence of length 0 (None) or 1 (Some); a line of text is a record.  *)
(*                                                                         *)
(* The text of a request (json! and to_string) is modelled character by    *)
(* character in SpecCodec; the Database of database.rs (four tables behind *)
(* one Mutex<Connection>) in SpecDb; both locks together in SpecBoth.      *)
(***************************************************************************)
EXTENDS Integers, Sequences, FiniteSets, TLC

\* ---------------------------------------------------------------- bounds
NumCallers == 2
MaxCalls == 2
MaxUnsolicited == 1
MaxStrLen == 2
MaxDbCalls == 1

Callers == 1..NumCallers
NoCaller == 0
\* The state of a Mutex whose holder panicked: held by no one, and poisoned.
Poisoned == -1

\* ------------------------------------------------------------ the values
None == <<>>
Some(x) == <<x>>
IsSome(o) == Len(o) = 1
Unwrap(o) == o[1]

\* Value::Null, and the empty JSON array
JsonNull == "null"
JsonEmptyArray == "[]"

\* What callers pass to send_command: a command name and its Vec<Value>.
Inputs ==
    { [command |-> "echo", args |-> <<"A">>],
      [command |-> "echo", args |-> <<"B">>],
      [command |-> "getSessions", args |-> <<>>] }

\* The value an echoing worker answers a request with: its argument, and the
\* empty array for a request without arguments.
EchoValue(args) == IF args = <<>> THEN JsonEmptyArray ELSE args[1]

\* ------------------------------------------------------- lines of output
\* A line the worker wrote: fmt "json" is a JSON object with the optional
\* fields id, result and error; "text" is text that is no JSON ("not json");
\* "bytes" is a line that is no UTF-8 text; "eof" is the empty string that
\* read_line leaves at end-of-stream.
JsonLine(i, r, e) == [fmt |-> "json", id |-> i, result |-> r, error |-> e]
TextLine == [fmt |-> "text", id |-> None, result |-> None, error |-> None]
BytesLine == [fmt |-> "bytes", id |-> None, result |-> None, error |-> None]
EofLine == [fmt |-> "eof", id |-> None, result |-> None, error |-> None]
\* No line read (yet).
NoLine == [fmt |-> "none", id |-> None, result |-> None, error |-> None]

WorkerErrorText == "session not found"

\* The line an echoing worker writes for request q.
EchoReply(q) == JsonLine(Some(q.id), Some(EchoValue(q.args)), None)

\* The lines a worker may write for request q.
Replies(q) ==
    { EchoReply(q),
      JsonLine(Some(q.id), None, Some(WorkerErrorText)),
      JsonLine(Some(q.id), Some(EchoValue(q.args)), Some(WorkerErrorText)),
      JsonLine(None, None, None),
      JsonLine(Some(q.id), Some(EchoValue(q.args)), Some("")),
      TextLine,
      BytesLine }

\* Lines a worker may write that answer no request.
UnsolicitedLines == { TextLine }

\* ------------------------------------------------- results of send_command
NoRet == [tag |-> "None", kind |-> "", val |-> ""]
Ok(v) == [tag |-> "Ok", kind |-> "", val |-> v]
\* Err(String): val is the message; kind names the place that made it:
\* SpawnFailed is line 137 (start_sidecar, line 104), TransportFailure lines
\* 152, 153 and 159 (write, flush, read_line), MalformedResponse line 163
\* (serde_json::from_str), WorkerReportedError line 166, PipeUnavailable lines
\* 151 and 156, LockFailure line 133.
Err(k, m) == [tag |-> "Err", kind |-> k, val |-> m]

SpawnErrorText == "Failed to start sidecar: No such file or directory (os error 2)"
NoParentText == "No parent directory"
CurrentDirErrorText == "No such file or directory (os error 2)"
PathErrors == { NoParentText, CurrentDirErrorText }
BrokenPipeText == "Broken pipe (os error 32)"
NoStdinText == "No stdin"
\* PoisonError's text
PoisonErrorText == "poisoned lock: another task failed inside"
NoStdoutText == "No stdout"
InvalidUtf8Text == "stream did not contain valid UTF-8"
\* format!("Failed to parse response: {}", e), e being serde_json's error for
\* the empty string and for text that is no JSON.
ParseErrorText(line) ==
    IF line.fmt = "eof"
    THEN "Failed to parse response: EOF while parsing a value at line 1 column 0"
    ELSE "Failed to parse response: expected ident at line 1 column 2"

\* A different Decode: the id field is required (id: u64), so a line without
\* one does not decode.
DecodeRequiringId(line) ==
    IF line.fmt = "json" /\ IsSome(line.id)
    THEN [ok |-> TRUE, id |-> line.id, result |-> line.result, error |-> line.error]
    ELSE [ok |-> FALSE, id |-> None, result |-> None, error |-> None]

\* serde_json::from_str::<SidecarResponse>(&line): the three optional fields
\* of a JSON line, or an error.
Decode(line) ==
    IF line.fmt = "json"
    THEN [ok |-> TRUE, id |-> line.id, result |-> line.result, error |-> line.error]
    ELSE [ok |-> FALSE, id |-> None, result |-> None, error |-> None]

\* A faulty Outcome: the error field is not looked at.
OutcomeIgnoringError(resp) ==
    Ok(IF IsSome(resp.result) THEN Unwrap(resp.result) ELSE JsonNull)

\* A faulty Outcome: the result is dropped.
OutcomeNullResult(resp) ==
    IF IsSome(resp.error) THEN Err("WorkerReportedError", Unwrap(resp.error))
    ELSE Ok(JsonNull)

\* What send_command returns for a decoded response.
Outcome(resp) ==
    IF IsSome(resp.error) THEN Err("WorkerReportedError", Unwrap(resp.error))
    ELSE Ok(IF IsSome(resp.result) THEN Unwrap(resp.result) ELSE JsonNull)

\* A faulty ParseResponse: a line that does not decode counts as an empty
\* response.
ParseResponseLenient(line) ==
    IF Decode(line).ok THEN Outcome(Decode(line))
    ELSE Ok(JsonNull)

\* What send_command returns for the text line it read.
ParseResponse(line) ==
    IF Decode(line).ok THEN Outcome(Decode(line))
    ELSE Err("MalformedResponse", ParseErrorText(line))

\* ------------------------------------------------- the text of a request
\* Text is a sequence of characters. A serde_json::Value: t is its kind, n the
\* number of a "num", s the characters of a "str", items the elements of an
\* "arr".
JNull == [t |-> "null", n |-> 0, s |-> <<>>, items |-> <<>>]
JNum(k) == [t |-> "num", n |-> k, s |-> <<>>, items |-> <<>>]
JStr(cs) == [t |-> "str", n |-> 0, s |-> cs, items |-> <<>>]
JArr(vs) == [t |-> "arr", n |-> 0, s |-> <<>>, items |-> vs]

DigitChars == << "0", "1", "2", "3", "4", "5", "6", "7", "8", "9" >>

\* itoa: the decimal digits of k.
RECURSIVE Digits(_)
Digits(k) ==
    IF k < 10 THEN << DigitChars[k + 1] >>
    ELSE Digits(k \div 10) \o << DigitChars[(k % 10) + 1] >>

\* A faulty EscapeChar: no character is escaped.
EscapeNothing(c) == << c >>

\* serde_json's string escaping: the quote, the backslash and the control
\* characters are written as two characters.
EscapeChar(c) ==
    CASE c = "\"" -> << "\\", "\"" >>
      [] c = "\\" -> << "\\", "\\" >>
      [] c = "\n" -> << "\\", "n" >>
      [] OTHER -> << c >>

RECURSIVE EscapeChars(_)
EscapeChars(cs) ==
    IF cs = <<>> THEN <<>> ELSE EscapeChar(Head(cs)) \o EscapeChars(Tail(cs))

EncodeString(cs) == << "\"" >> \o EscapeChars(cs) \o << "\"" >>

\* Value::to_string(): the compact text of a value.
RECURSIVE EncodeValue(_)
RECURSIVE EncodeItems(_)
EncodeValue(v) ==
    CASE v.t = "null" -> << "n", "u", "l", "l" >>
      [] v.t = "num" -> Digits(v.n)
      [] v.t = "str" -> EncodeString(v.s)
      [] v.t = "arr" -> << "[" >> \o EncodeItems(v.items) \o << "]" >>

EncodeItems(vs) ==
    IF vs = <<>> THEN <<>>
    ELSE IF Len(vs) = 1 THEN EncodeValue(vs[1])
    ELSE EncodeValue(Head(vs)) \o << "," >> \o EncodeItems(Tail(vs))

\* json!({"id": id, "command": command, "args": args}).to_string(): the keys
\* of a serde_json map come out in sorted order.
EncodeRequest(q) ==
    << "{" >>
    \o EncodeString(<< "a", "r", "g", "s" >>) \o << ":" >> \o EncodeValue(JArr(q.args))
    \o << "," >>
    \o EncodeString(<< "c", "o", "m", "m", "a", "n", "d" >>) \o << ":" >>
    \o EncodeString(q.command)
    \o << "," >>
    \o EncodeString(<< "i", "d" >>) \o << ":" >> \o Digits(q.id)
    \o << "}" >>

\* writeln!(stdin, "{}", text): the text and a newline.
Writeln(text) == text \o << "\n" >>

\* ----------------------------------------------- the text of a response
\* A value of a kind that is none of the four above: a negative number
\* ("neg"), a number with a fraction or one too large for u64 ("float"), a
\* boolean ("bool"), an object ("obj").
JOther(kind) == [t |-> kind, n |-> 0, s |-> <<>>, items |-> <<>>]

\* What a line says: shape "object" with its members, key and value, in the
\* order of the text (a key may occur twice); shape "array" with its items;
\* "scalar", any other JSON value; "invalid", text that is no JSON value
\* (nothing, or a value with something after it).
ObjectDoc(ms) == [shape |-> "object", members |-> ms, items |-> <<>>]
ArrayDoc(vs) == [shape |-> "array", members |-> <<>>, items |-> vs]
ScalarDoc == [shape |-> "scalar", members |-> <<>>, items |-> <<>>]
InvalidDoc == [shape |-> "invalid", members |-> <<>>, items |-> <<>>]

\* The fields of SidecarResponse, in the order of the struct.
ResponseFields == << "id", "result", "error" >>
IsResponseField(k) == \E i \in 1..Len(ResponseFields) : ResponseFields[i] = k

\* A different TypeOk: a field of any type is taken.
AnyTypeOk(k, v) == TRUE

\* Whether value v deserializes as field k: Option<u64>, Option<Value>,
\* Option<String>; null is None for each.
TypeOk(k, v) ==
    CASE k = "id" -> v.t \in {"null", "num"}
      [] k = "error" -> v.t \in {"null", "str"}
      [] OTHER -> TRUE

\* The Option a value deserializes to.
OptionOf(v) == IF v.t = "null" THEN None ELSE Some(v)

\* A decoded response, or the failure to decode one (msg: serde's error).
Decoded(i, r, e) == [ok |-> TRUE, id |-> i, result |-> r, error |-> e, msg |-> ""]
DecodeFail(m) == [ok |-> FALSE, id |-> None, result |-> None, error |-> None, msg |-> m]

\* The Deserialize that derive makes for SidecarResponse, visit_map: the
\* members in their order; a field seen twice is an error, a field of the
\* wrong type is an error, any other key is skipped; fields not seen are None.
RECURSIVE VisitMap(_, _, _)
VisitMap(ms, i, acc) ==
    IF i > Len(ms) THEN Decoded(acc.id, acc.result, acc.error)
    ELSE IF ~IsResponseField(ms[i].key) THEN VisitMap(ms, i + 1, acc)
    ELSE IF ms[i].key \in acc.seen THEN DecodeFail("duplicate field")
    ELSE IF ~TypeOk(ms[i].key, ms[i].val) THEN DecodeFail("invalid type")
    ELSE VisitMap(ms, i + 1,
                  [acc EXCEPT !.seen = @ \cup {ms[i].key},
                              ![ms[i].key] = OptionOf(ms[i].val)])

\* visit_seq: the items are the fields in the order of the struct, all three
\* of them and no more.
VisitSeq(vs) ==
    IF Len(vs) # Len(ResponseFields) THEN DecodeFail("invalid length")
    ELSE IF \E i \in 1..Len(vs) : ~TypeOk(ResponseFields[i], vs[i])
         THEN DecodeFail("invalid type")
    ELSE Decoded(OptionOf(vs[1]), OptionOf(vs[2]), OptionOf(vs[3]))

\* serde_json::from_str::<SidecarResponse>(&line)
FromStr(doc) ==
    CASE doc.shape = "object" ->
            VisitMap(doc.members, 1, [seen |-> {}, id |-> None, result |-> None, error |-> None])
      [] doc.shape = "array" -> VisitSeq(doc.items)
      [] doc.shape = "scalar" -> DecodeFail("invalid type")
      [] OTHER -> DecodeFail("syntax")

\* A different Returned: an error that is the empty string counts as none.
ReturnedUnlessEmptyError(resp) ==
    IF ~resp.ok THEN Err("MalformedResponse", resp.msg)
    ELSE IF IsSome(resp.error) /\ Unwrap(resp.error).s # <<>>
         THEN Err("WorkerReportedError", Unwrap(resp.error))
    ELSE Ok(IF IsSome(resp.result) THEN Unwrap(resp.result) ELSE JsonNull)

\* What send_command returns for what from_str gave it.
Returned(resp) ==
    IF resp.ok THEN Outcome(resp) ELSE Err("MalformedResponse", resp.msg)

\* No response line on its way.
NoReply == [stage |-> "none", doc |-> InvalidDoc, resp |-> DecodeFail(""), ret |-> NoRet]

\* ---- the reader of the line (the worker's side): a JSON parser
\* The character at position i of txt, "" past its end.
At(txt, i) == IF i >= 1 /\ i <= Len(txt) THEN txt[i] ELSE ""

IsDigit(c) == \E d \in 1..Len(DigitChars) : DigitChars[d] = c
DigitValue(c) == (CHOOSE d \in 1..Len(DigitChars) : DigitChars[d] = c) - 1

\* A value parsed out of txt, and the position after it; or a failure.
Parsed(v, i) == [ok |-> TRUE, v |-> v, next |-> i]
ParseFail == [ok |-> FALSE, v |-> JNull, next |-> 0]

\* The characters of a string from position i to its closing quote; acc is
\* what was read of it so far.
RECURSIVE ParseChars(_, _, _)
ParseChars(txt, i, acc) ==
    IF i > Len(txt) THEN ParseFail
    ELSE IF txt[i] = "\"" THEN Parsed(JStr(acc), i + 1)
    ELSE IF txt[i] = "\n" THEN ParseFail
    ELSE IF txt[i] = "\\"
         THEN IF At(txt, i + 1) \in {"\"", "\\"}
              THEN ParseChars(txt, i + 2, Append(acc, txt[i + 1]))
              ELSE IF At(txt, i + 1) = "n"
                   THEN ParseChars(txt, i + 2, Append(acc, "\n"))
                   ELSE ParseFail
    ELSE ParseChars(txt, i + 1, Append(acc, txt[i]))

RECURSIVE ParseDigits(_, _, _)
ParseDigits(txt, i, k) ==
    IF IsDigit(At(txt, i)) THEN ParseDigits(txt, i + 1, k * 10 + DigitValue(txt[i]))
    ELSE Parsed(JNum(k), i)

RECURSIVE ParseValue(_, _)
RECURSIVE ParseItems(_, _, _)
ParseValue(txt, i) ==
    CASE At(txt, i) = "\"" -> ParseChars(txt, i + 1, <<>>)
      [] At(txt, i) = "[" ->
            IF At(txt, i + 1) = "]" THEN Parsed(JArr(<<>>), i + 2)
            ELSE ParseItems(txt, i + 1, <<>>)
      [] At(txt, i) = "n" ->
            IF /\ At(txt, i + 1) = "u" /\ At(txt, i + 2) = "l" /\ At(txt, i + 3) = "l"
            THEN Parsed(JNull, i + 4)
            ELSE ParseFail
      [] IsDigit(At(txt, i)) -> ParseDigits(txt, i, 0)
      [] OTHER -> ParseFail

\* The elements of an array from position i; acc is what was read so far.
ParseItems(txt, i, acc) ==
    LET r == ParseValue(txt, i)
    IN  IF ~r.ok THEN ParseFail
        ELSE IF At(txt, r.next) = "," THEN ParseItems(txt, r.next + 1, Append(acc, r.v))
        ELSE IF At(txt, r.next) = "]" THEN Parsed(JArr(Append(acc, r.v)), r.next + 1)
        ELSE ParseFail

MembersFail == [ok |-> FALSE, members |-> <<>>, next |-> 0]

\* The members of an object from position i; acc is what was read so far.
RECURSIVE ParseMembers(_, _, _)
ParseMembers(txt, i, acc) ==
    IF At(txt, i) # "\"" THEN MembersFail
    ELSE LET k == ParseChars(txt, i + 1, <<>>)
         IN  IF ~k.ok \/ At(txt, k.next) # ":" THEN MembersFail
             ELSE LET r == ParseValue(txt, k.next + 1)
                      m == Append(acc, [key |-> k.v.s, val |-> r.v])
                  IN  IF ~r.ok THEN MembersFail
                      ELSE IF At(txt, r.next) = ","
                           THEN ParseMembers(txt, r.next + 1, m)
                      ELSE IF At(txt, r.next) = "}"
                           THEN [ok |-> TRUE, members |-> m, next |-> r.next + 1]
                      ELSE MembersFail

\* The value of member key among members ms, if there is one.
Member(ms, key) ==
    LET I == {i \in 1..Len(ms) : ms[i].key = key}
    IN  IF I = {} THEN None ELSE Some(ms[CHOOSE i \in I : \A j \in I : j <= i].val)

NoRequest == [ok |-> FALSE, id |-> 0, command |-> <<>>, args |-> <<>>]

\* The request a line of text says: an object, the whole of the text, with a
\* number id, a string command and an array args.
DecodeRequest(txt) ==
    LET o == IF At(txt, 1) = "{" THEN ParseMembers(txt, 2, <<>>) ELSE MembersFail
        i == Member(o.members, << "i", "d" >>)
        c == Member(o.members, << "c", "o", "m", "m", "a", "n", "d" >>)
        a == Member(o.members, << "a", "r", "g", "s" >>)
    IN  IF /\ o.ok
           /\ o.next = Len(txt) + 1
           /\ IsSome(i) /\ IsSome(c) /\ IsSome(a)
           /\ Unwrap(i).t = "num" /\ Unwrap(c).t = "str" /\ Unwrap(a).t = "arr"
        THEN [ok |-> TRUE, id |-> Unwrap(i).n, command |-> Unwrap(c).s,
              args |-> Unwrap(a).items]
        ELSE NoRequest

\* The first line of what was written: the characters before the first
\* newline, all of them if there is none.
FirstLine(bytes) ==
    LET N == {i \in 1..Len(bytes) : bytes[i] = "\n"}
    IN  IF N = {} THEN bytes
        ELSE SubSeq(bytes, 1, (CHOOSE i \in N : \A j \in N : i <= j) - 1)

\* What is left of what was written after its first line and the newline.
AfterFirstLine(bytes) == SubSeq(bytes, Len(FirstLine(bytes)) + 2, Len(bytes))

\* ----------------------------------------------------------- the database
\* The four tables (init_tables), each with PRIMARY KEY id.
Kinds == { "profiles", "proxies", "workflows", "groups" }

\* A row: the columns the Database methods look at; name stands for the
\* columns that are only stored. Text columns that are compared (name,
\* created_at) are sequences of characters.
Row(i, nm, g, x, c) ==
    [id |-> i, name |-> nm, group_id |-> g, proxy_id |-> x,
     created_at |-> c, updated_at |-> c]

NoRow == Row("", <<>>, "", "", <<>>)

\* The database: the rows of each table in rowid order, the order of their
\* INSERTs.
EmptyStore == [k \in Kinds |-> <<>>]

\* The ids stored in table tbl.
Ids(tbl) == { tbl[i].id : i \in 1..Len(tbl) }

\* Characters in the order of their byte values.
ByteOrder == << "1", "2", "B", "a", "b" >>
Code(c) == CHOOSE i \in 1..Len(ByteOrder) : ByteOrder[i] = c

\* SQLite compares TEXT byte by byte (collation BINARY); a proper prefix is
\* less.
RECURSIVE TextLess(_, _)
TextLess(a, b) ==
    IF b = <<>> THEN FALSE
    ELSE IF a = <<>> THEN TRUE
    ELSE IF Head(a) = Head(b) THEN TextLess(Tail(a), Tail(b))
    ELSE Code(Head(a)) < Code(Head(b))

\* A different MayPrecede: every table is listed in rowid order reversed, the
\* row inserted last first.
MayPrecedeByRowid(k, tbl, i, j) == i > j

\* ORDER BY created_at DESC (profiles, proxies, workflows) and ORDER BY name
\* ASC (groups): whether row i of tbl may come before row j in the result.
MayPrecede(k, tbl, i, j) ==
    IF k = "groups" THEN ~TextLess(tbl[j].name, tbl[i].name)
    ELSE ~TextLess(tbl[i].created_at, tbl[j].created_at)

\* The orders of the rows of tbl: the bijections of 1..Len(tbl).
Orders(tbl) ==
    { f \in [1..Len(tbl) -> 1..Len(tbl)] :
        \A i, j \in 1..Len(tbl) : i # j => f[i] # f[j] }

\* SELECT .. FROM k ORDER BY ..: the results the statement may give, every
\* row once; rows the ORDER BY does not tell apart come in any order.
Select(k, tbl) ==
    { [n \in 1..Len(tbl) |-> tbl[f[n]]] :
        f \in { g \in Orders(tbl) :
                  \A m, n \in 1..Len(tbl) : m < n => MayPrecede(k, tbl, g[m], g[n]) } }

\* DELETE FROM .. WHERE id = ?1: the rows of tbl but the one with id i.
RECURSIVE Without(_, _)
Without(tbl, i) ==
    IF tbl = <<>> THEN <<>>
    ELSE IF Head(tbl).id = i THEN Without(Tail(tbl), i)
    ELSE << Head(tbl) >> \o Without(Tail(tbl), i)

\* A different ClearGroup: the profiles of the group are deleted with it.
RECURSIVE ClearGroupByDelete(_, _)
ClearGroupByDelete(tbl, g) ==
    IF tbl = <<>> THEN <<>>
    ELSE IF Head(tbl).group_id = g THEN ClearGroupByDelete(Tail(tbl), g)
    ELSE << Head(tbl) >> \o ClearGroupByDelete(Tail(tbl), g)

\* UPDATE profiles SET group_id = '' WHERE group_id = ?1
ClearGroup(tbl, g) ==
    [n \in 1..Len(tbl) |->
        IF tbl[n].group_id = g THEN [tbl[n] EXCEPT !.group_id = ""] ELSE tbl[n]]

\* What a Database method returns: Ok with rows (none for ()), or Err.
DbNoRet == [tag |-> "None", rows |-> <<>>, msg |-> ""]
DbOk(rows) == [tag |-> "Ok", rows |-> rows, msg |-> ""]
DbErr(m) == [tag |-> "Err", rows |-> <<>>, msg |-> m]

UniqueErrorText == "UNIQUE constraint failed"

\* The INSERT of create_profile names 58 columns and has 57 values (?1 to
\* ?57): SQLite does not compile it, whatever the row. The INSERTs of the
\* other three methods have as many values as columns.
ValueCountErrorText == "57 values for 58 columns"
InsertCompiles(k) == k # "profiles"

\* profiles.into_iter().find(|p| p.id == id): the first of rows with id i, as
\* an Option.
RECURSIVE Find(_, _)
Find(rows, i) ==
    IF rows = <<>> THEN None
    ELSE IF Head(rows).id = i THEN Some(Head(rows))
    ELSE Find(Tail(rows), i)

\* A Database call: the method, its table, its arguments, the database as
\* the call found it when it got the connection, and the caller that was
\* waiting in send_command's read_line when the call began, if one was.
NoDbCall ==
    [op |-> "", kind |-> "", id |-> "", row |-> NoRow, before |-> EmptyStore,
     reading |-> NoCaller]
NoDbLast == [call |-> NoDbCall, ret |-> DbNoRet, after |-> EmptyStore]

\* The pipes of a Child: whether its stdin and its stdout are Some. No child,
\* no pipes.
NoPipes == [stdin |-> FALSE, stdout |-> FALSE]

\* A different SpawnPipes: the worker inherits the application's input
\* (Stdio::inherit()), so the handle has no stdin.
SpawnPipesStdinInherited == [stdin |-> FALSE, stdout |-> TRUE]

\* .stdin(Stdio::piped()).stdout(Stdio::piped()): the handle spawn returns has
\* both pipes.
SpawnPipes == [stdin |-> TRUE, stdout |-> TRUE]

\* ----------------------------------------------------------------- state
VARIABLES
    process,      \* SidecarState.process: 0 is None, n is the n-th child spawned
    pipes,        \* Child.stdin and Child.stdout of the handle in the slot: whether each is Some
    request_id,   \* SidecarState.request_id
    lock,         \* the holder of the process mutex, or NoCaller
    pc,           \* where each caller is in send_command
    call,         \* each caller's current call: its locals
    last,         \* the call that returned last: its locals and what it returned
    alive,        \* whether the worker process runs
    stdin,        \* the worker's input pipe: the chunks written and not yet consumed
    stdout,       \* the worker's output pipe: the lines written and not yet read
    nCalls,       \* calls started
    spawns,       \* processes spawned
    assigned,     \* the ids fetch_add gave out, in order
    nExtra,       \* lines the worker wrote that answer no request
    dropped,      \* lines taken out of the pipe that no call was given
    wire,         \* a request on its way: its value, its text, the line, what is decoded
    reply,        \* a response line on its way: what it says, what is decoded, what is returned
    store,        \* the database: the rows of its four tables, in rowid order
    dblock,       \* the holder of the connection mutex, or NoCaller
    dpc,          \* where each caller is in a Database method
    dcall,        \* each caller's current Database call
    dlast,        \* the Database call that returned last, and what it returned
    nDbCalls      \* Database calls started

bridgeVars == << process, pipes, request_id, lock, pc, call, last, alive, stdin, stdout,
                 nCalls, spawns, assigned, nExtra, dropped >>
codecVars == << wire, reply >>
dbVars == << store, dblock, dpc, dcall, dlast, nDbCalls >>

vars == << bridgeVars, codecVars, dbVars >>

\* The locals of a call: its request, the line it read (re: the id of the
\* request that line was written for), and the steps it has performed so far.
NoCall ==
    [command |-> "", args |-> <<>>, id |-> 0, line |-> NoLine, re |-> 0,
     steps |-> <<>>]

\* The steps of send_command, in the order of its code.
StepOrder == << "lock", "ensure", "spawn", "id", "write", "read", "decode", "unlock" >>

\* The call's locals after it performed step s.
Did(c, s) == [c EXCEPT !.steps = Append(@, s)]

NoLast == [call |-> NoCall, ret |-> NoRet]

\* No request on its way.
NoWire ==
    [stage |-> "none", req |-> [id |-> 0, command |-> <<>>, args |-> <<>>],
     text |-> <<>>, line |-> <<>>, out |-> NoRequest]

\* A different InitBridge: the worker is spawned when the state is made.
InitBridgeEager ==
    /\ process = 1
    /\ pipes = SpawnPipes
    /\ request_id = 1
    /\ lock = NoCaller
    /\ pc = [t \in Callers |-> "idle"]
    /\ call = [t \in Callers |-> NoCall]
    /\ last = NoLast
    /\ alive = TRUE
    /\ stdin = <<>>
    /\ stdout = <<>>
    /\ nCalls = 0
    /\ spawns = 1
    /\ assigned = <<>>
    /\ nExtra = 0
    /\ dropped = 0

\* SidecarState::new
InitBridge ==
    /\ process = 0
    /\ pipes = NoPipes
    /\ request_id = 1
    /\ lock = NoCaller
    /\ pc = [t \in Callers |-> "idle"]
    /\ call = [t \in Callers |-> NoCall]
    /\ last = NoLast
    /\ alive = FALSE
    /\ stdin = <<>>
    /\ stdout = <<>>
    /\ nCalls = 0
    /\ spawns = 0
    /\ assigned = <<>>
    /\ nExtra = 0
    /\ dropped = 0

\* Database::new on a database file that holds st.
InitDb(st) ==
    /\ store = st
    /\ dblock = NoCaller
    /\ dpc = [t \in Callers |-> "idle"]
    /\ dcall = [t \in Callers |-> NoDbCall]
    /\ dlast = NoDbLast
    /\ nDbCalls = 0

\* The application after setup: the bridge as constructed, a new database.
Init ==
    /\ InitBridge
    /\ wire = NoWire
    /\ reply = NoReply
    /\ InitDb(EmptyStore)

workerVars == << alive, stdin, stdout, nExtra, dropped >>

\* ------------------------------------------------------------ send_command
\* A caller enters send_command(state, command, args).
Invoke(t, in) ==
    /\ pc[t] = "idle"
    /\ dpc[t] = "idle"
    /\ nCalls < MaxCalls
    /\ nCalls' = nCalls + 1
    /\ pc' = [pc EXCEPT ![t] = "lock"]
    /\ call' = [call EXCEPT ![t] = [NoCall EXCEPT !.command = in.command, !.args = in.args]]
    /\ UNCHANGED << process, pipes, request_id, lock, last, spawns, assigned >>
    /\ UNCHANGED workerVars
    /\ UNCHANGED << codecVars, dbVars >>

\* A faulty Acquire: it does not wait for the mutex to be free.
AcquireWithoutExclusion(t) ==
    /\ pc[t] = "lock"
    /\ lock' = t
    /\ pc' = [pc EXCEPT ![t] = "check"]
    /\ call' = [call EXCEPT ![t] = Did(@, "lock")]
    /\ UNCHANGED << process, pipes, request_id, last, nCalls, spawns, assigned >>
    /\ UNCHANGED workerVars
    /\ UNCHANGED << codecVars, dbVars >>

\* state.process.lock(): blocks until the mutex is free.
Acquire(t) ==
    /\ pc[t] = "lock"
    /\ lock = NoCaller
    /\ lock' = t
    /\ pc' = [pc EXCEPT ![t] = "check"]
    /\ call' = [call EXCEPT ![t] = Did(@, "lock")]
    /\ UNCHANGED << process, pipes, request_id, last, nCalls, spawns, assigned >>
    /\ UNCHANGED workerVars
    /\ UNCHANGED << codecVars, dbVars >>

\* A faulty Released: the guard outlives the call, the mutex stays as it is.
NotReleased(t) == lock

\* The guard is dropped when send_command returns: the mutex is released if
\* this caller holds it.
Released(t) == IF lock = t THEN NoCaller ELSE lock

\* send_command returns r from a call whose locals were c.
Return(t, c, r) ==
    /\ pc' = [pc EXCEPT ![t] = "idle"]
    /\ call' = [call EXCEPT ![t] = NoCall]
    /\ last' = [call |-> Did(c, "unlock"), ret |-> r]
    /\ lock' = Released(t)

\* fetch_add done before the slot is looked at.
FetchAddEarly(n) == n + 1

\* A faulty SlotEmpty: the slot is never found filled.
SlotAlwaysEmpty(p) == TRUE

\* process_guard.is_none()
SlotEmpty(p) == p = 0

\* if process_guard.is_none() { ... }
CheckRunning(t) ==
    /\ pc[t] = "check"
    /\ pc' = [pc EXCEPT ![t] = IF SlotEmpty(process) THEN "spawn" ELSE "id"]
    /\ call' = [call EXCEPT ![t] = Did(@, "ensure")]
    /\ UNCHANGED << process, pipes, request_id, lock, last, nCalls, spawns, assigned >>
    /\ UNCHANGED workerVars
    /\ UNCHANGED << codecVars, dbVars >>

\* *process_guard = Some(start_sidecar()?): a new process with new, empty pipes.
SpawnOk(t) ==
    /\ pc[t] = "spawn"
    /\ spawns' = spawns + 1
    /\ process' = spawns + 1
    /\ pipes' = SpawnPipes
    /\ alive' = TRUE
    /\ stdin' = <<>>
    /\ stdout' = <<>>
    /\ pc' = [pc EXCEPT ![t] = "id"]
    /\ call' = [call EXCEPT ![t] = Did(@, "spawn")]
    /\ UNCHANGED << request_id, lock, last, nCalls, assigned, nExtra, dropped >>
    /\ UNCHANGED << codecVars, dbVars >>

\* A faulty SpawnFail: a failed spawn is attempted once more before the error
\* is returned.
SpawnFailRetry(t) ==
    /\ pc[t] = "spawn"
    /\ Return(t, Did(Did(call[t], "spawn"), "spawn"), Err("SpawnFailed", SpawnErrorText))
    /\ UNCHANGED << process, pipes, request_id, nCalls, spawns, assigned >>
    /\ UNCHANGED workerVars
    /\ UNCHANGED << codecVars, dbVars >>

\* A faulty SpawnFail: the error is returned with the guard still alive, so
\* the mutex stays locked.
SpawnFailKeepsLock(t) ==
    /\ pc[t] = "spawn"
    /\ pc' = [pc EXCEPT ![t] = "idle"]
    /\ call' = [call EXCEPT ![t] = NoCall]
    /\ last' = [call |-> Did(call[t], "spawn"), ret |-> Err("SpawnFailed", SpawnErrorText)]
    /\ UNCHANGED << process, pipes, request_id, lock, nCalls, spawns, assigned >>
    /\ UNCHANGED workerVars
    /\ UNCHANGED << codecVars, dbVars >>

\* A faulty SpawnFail: the id is taken before the slot is looked at, so a call
\* whose spawn fails has used one up.
SpawnFailTakesId(t) ==
    /\ pc[t] = "spawn"
    /\ Return(t, Did(call[t], "spawn"), Err("SpawnFailed", SpawnErrorText))
    /\ request_id' = FetchAddEarly(request_id)
    /\ UNCHANGED << process, pipes, nCalls, spawns, assigned >>
    /\ UNCHANGED workerVars
    /\ UNCHANGED << codecVars, dbVars >>

\* start_sidecar()? fails: send_command returns the error. The worker's path
\* could not be worked out (no spawn was attempted), or Command::spawn failed.
SpawnFail(t) ==
    /\ pc[t] = "spawn"
    /\ \/ \E e \in PathErrors : Return(t, call[t], Err("SpawnFailed", e))
       \/ Return(t, Did(call[t], "spawn"), Err("SpawnFailed", SpawnErrorText))
    /\ UNCHANGED << process, pipes, request_id, nCalls, spawns, assigned >>
    /\ UNCHANGED workerVars
    /\ UNCHANGED << codecVars, dbVars >>

\* A faulty FetchAdd: the counter stays.
FetchAddNothing(n) == n

\* state.request_id.fetch_add(1, Ordering::SeqCst): the new counter value.
FetchAdd(n) == n + 1

\* let id = state.request_id.fetch_add(..): the call's id is the old value.
TakeId(t) ==
    /\ pc[t] = "id"
    /\ call' = [call EXCEPT ![t] = Did([@ EXCEPT !.id = request_id], "id")]
    /\ assigned' = Append(assigned, request_id)
    /\ request_id' = FetchAdd(request_id)
    /\ pc' = [pc EXCEPT ![t] = "write"]
    /\ UNCHANGED << process, pipes, lock, last, nCalls, spawns >>
    /\ UNCHANGED workerVars
    /\ UNCHANGED << codecVars, dbVars >>

\* The request json!({"id": id, "command": command, "args": args}).
Request(t) == [id |-> call[t].id, command |-> call[t].command, args |-> call[t].args]

\* writeln!(stdin, "{}", request.to_string()), first write: the request's text.
WriteBody(t) ==
    /\ pc[t] = "write"
    /\ pipes.stdin
    /\ alive
    /\ stdin' = Append(stdin, [part |-> "body", by |-> t, req |-> Request(t)])
    /\ pc' = [pc EXCEPT ![t] = "newline"]
    /\ call' = [call EXCEPT ![t] = Did(@, "write")]
    /\ UNCHANGED << process, pipes, request_id, lock, last, nCalls, spawns, assigned >>
    /\ UNCHANGED << alive, stdout, nExtra, dropped >>
    /\ UNCHANGED << codecVars, dbVars >>

\* A faulty WriteNewline: the guard is dropped once the request is written.
WriteNewlineAndRelease(t) ==
    /\ pc[t] = "newline"
    /\ alive
    /\ stdin' = Append(stdin, [part |-> "nl", by |-> t, req |-> Request(t)])
    /\ pc' = [pc EXCEPT ![t] = "read"]
    /\ lock' = Released(t)
    /\ UNCHANGED << process, pipes, request_id, call, last, nCalls, spawns, assigned >>
    /\ UNCHANGED << alive, stdout, nExtra, dropped >>
    /\ UNCHANGED << codecVars, dbVars >>

\* writeln!, second write: the newline; stdin.flush() then does nothing.
WriteNewline(t) ==
    /\ pc[t] = "newline"
    /\ alive
    /\ stdin' = Append(stdin, [part |-> "nl", by |-> t, req |-> Request(t)])
    /\ pc' = [pc EXCEPT ![t] = "read"]
    /\ UNCHANGED << process, pipes, request_id, lock, call, last, nCalls, spawns, assigned >>
    /\ UNCHANGED << alive, stdout, nExtra, dropped >>
    /\ UNCHANGED << codecVars, dbVars >>

\* A faulty WriteFail: a failed write is attempted once more before the error
\* is returned.
WriteFailRetry(t) ==
    /\ pc[t] \in {"write", "newline"}
    /\ ~alive
    /\ Return(t, Did(Did(call[t], "write"), "write"),
               Err("TransportFailure", BrokenPipeText))
    /\ UNCHANGED << process, pipes, request_id, nCalls, spawns, assigned >>
    /\ UNCHANGED workerVars
    /\ UNCHANGED << codecVars, dbVars >>

\* A different WriteFail: the failed write empties the slot, and the next call
\* spawns a new worker.
WriteFailClearsSlot(t) ==
    /\ pc[t] \in {"write", "newline"}
    /\ ~alive
    /\ Return(t, IF pc[t] = "write" THEN Did(call[t], "write") ELSE call[t],
               Err("TransportFailure", BrokenPipeText))
    /\ process' = 0
    /\ pipes' = NoPipes
    /\ UNCHANGED << request_id, nCalls, spawns, assigned >>
    /\ UNCHANGED workerVars
    /\ UNCHANGED << codecVars, dbVars >>

\* process.stdin.as_mut().ok_or("No stdin")? on a handle without stdin; or a
\* write to the pipe of a worker that has exited fails: .map_err(..)? returns.
WriteFail(t) ==
    /\ pc[t] \in {"write", "newline"}
    /\ IF pc[t] = "write" /\ ~pipes.stdin
       THEN Return(t, call[t], Err("PipeUnavailable", NoStdinText))
       ELSE /\ ~alive
            /\ Return(t, IF pc[t] = "write" THEN Did(call[t], "write") ELSE call[t],
                       Err("TransportFailure", BrokenPipeText))
    /\ UNCHANGED << process, pipes, request_id, nCalls, spawns, assigned >>
    /\ UNCHANGED workerVars
    /\ UNCHANGED << codecVars, dbVars >>

\* BufReader::new(stdout) fills its buffer (8 KiB) with what the pipe holds,
\* the first line and whatever follows it: the number of lines a read may take
\* out of a pipe that holds n.
BufReaderTakes(n) == 1..n

\* What send_command returns for the line read_line produced.
AfterRead(line) ==
    IF line.fmt = "bytes" THEN Err("TransportFailure", InvalidUtf8Text)
    ELSE ParseResponse(line)

\* The call's locals after read_line gave it line ln: the line is decoded
\* unless read_line failed.
Read(c, ln) ==
    LET r == Did([c EXCEPT !.line = ln], "read")
    IN  IF ln.fmt = "bytes" THEN r ELSE Did(r, "decode")

\* A different ReadLine: a call that fails on the line it read empties the
\* slot, so that the next call spawns a new worker.
ReadLineDropsOnError(t) ==
    /\ pc[t] = "read"
    /\ pipes.stdout
    /\ stdout # <<>>
    /\ \E k \in BufReaderTakes(Len(stdout)) :
         /\ stdout' = SubSeq(stdout, k + 1, Len(stdout))
         /\ dropped' = dropped + (k - 1)
    /\ Return(t, Read([call[t] EXCEPT !.re = Head(stdout).re], Head(stdout).line),
               AfterRead(Head(stdout).line))
    /\ process' = IF AfterRead(Head(stdout).line).tag = "Err" THEN 0 ELSE process
    /\ pipes' = IF AfterRead(Head(stdout).line).tag = "Err" THEN NoPipes ELSE pipes
    /\ UNCHANGED << request_id, nCalls, spawns, assigned >>
    /\ UNCHANGED << alive, stdin, nExtra >>
    /\ UNCHANGED << codecVars, dbVars >>

\* reader.read_line(&mut line) and the rest of send_command: the call takes
\* the first line; the reader, with whatever else it buffered, is dropped.
ReadLine(t) ==
    /\ pc[t] = "read"
    /\ pipes.stdout
    /\ stdout # <<>>
    /\ \E k \in BufReaderTakes(Len(stdout)) :
         /\ stdout' = SubSeq(stdout, k + 1, Len(stdout))
         /\ dropped' = dropped + (k - 1)
    /\ Return(t, Read([call[t] EXCEPT !.re = Head(stdout).re], Head(stdout).line),
               AfterRead(Head(stdout).line))
    /\ UNCHANGED << process, pipes, request_id, nCalls, spawns, assigned >>
    /\ UNCHANGED << alive, stdin, nExtra >>
    /\ UNCHANGED << codecVars, dbVars >>

\* A different ReadEof: the read gives up on an empty stream whether the worker
\* has exited or not, as a read with a timeout would.
ReadEofOrTimeout(t) ==
    /\ pc[t] = "read"
    /\ stdout = <<>>
    /\ Return(t, Read(call[t], EofLine), AfterRead(EofLine))
    /\ UNCHANGED << process, pipes, request_id, nCalls, spawns, assigned >>
    /\ UNCHANGED workerVars
    /\ UNCHANGED << codecVars, dbVars >>

\* process.stdout.as_mut().ok_or("No stdout")? on a handle without stdout; or
\* read_line at end-of-stream: Ok(0), and line stays the empty string.
ReadEof(t) ==
    /\ pc[t] = "read"
    /\ IF ~pipes.stdout
       THEN Return(t, call[t], Err("PipeUnavailable", NoStdoutText))
       ELSE /\ stdout = <<>>
            /\ ~alive
            /\ Return(t, Read(call[t], EofLine), AfterRead(EofLine))
    /\ UNCHANGED << process, pipes, request_id, nCalls, spawns, assigned >>
    /\ UNCHANGED workerVars
    /\ UNCHANGED << codecVars, dbVars >>

\* A caller panics inside read_line (the String cannot grow to hold the line:
\* capacity overflow) with the guard held: the thread unwinds and is gone, the
\* guard is dropped on the way and leaves the mutex free and poisoned.
Panic(t) ==
    /\ pc[t] = "read"
    /\ lock = t
    /\ lock' = Poisoned
    /\ pc' = [pc EXCEPT ![t] = "panicked"]
    /\ call' = [call EXCEPT ![t] = NoCall]
    /\ UNCHANGED << process, pipes, request_id, last, nCalls, spawns, assigned >>
    /\ UNCHANGED workerVars
    /\ UNCHANGED << codecVars, dbVars >>

\* A different LockFail: the guard is taken out of the PoisonError
\* (into_inner) and the call goes on.
LockFailRecover(t) ==
    /\ pc[t] = "lock"
    /\ lock = Poisoned
    /\ lock' = t
    /\ pc' = [pc EXCEPT ![t] = "check"]
    /\ call' = [call EXCEPT ![t] = Did(@, "lock")]
    /\ UNCHANGED << process, pipes, request_id, last, nCalls, spawns, assigned >>
    /\ UNCHANGED workerVars
    /\ UNCHANGED << codecVars, dbVars >>

\* state.process.lock().map_err(|e| e.to_string())? on a poisoned mutex:
\* send_command returns the PoisonError's text; there is no guard to drop.
LockFail(t) ==
    /\ pc[t] = "lock"
    /\ lock = Poisoned
    /\ pc' = [pc EXCEPT ![t] = "idle"]
    /\ call' = [call EXCEPT ![t] = NoCall]
    /\ last' = [call |-> call[t], ret |-> Err("LockFailure", PoisonErrorText)]
    /\ UNCHANGED << process, pipes, request_id, lock, nCalls, spawns, assigned >>
    /\ UNCHANGED workerVars
    /\ UNCHANGED << codecVars, dbVars >>

\* -------------------------------------------------------------- the worker
\* The worker has a whole request line to take when the pipe starts with a
\* request's text followed by a newline.
HasRequest == Len(stdin) >= 2 /\ stdin[1].part = "body" /\ stdin[2].part = "nl"

\* The worker takes one request line off its input and writes line ln for it.
Answer(ln) ==
    /\ stdout' = Append(stdout, [re |-> stdin[1].req.id, line |-> ln])
    /\ stdin' = SubSeq(stdin, 3, Len(stdin))
    /\ UNCHANGED << process, pipes, request_id, lock, pc, call, last, nCalls, spawns, assigned >>
    /\ UNCHANGED << alive, nExtra, dropped >>
    /\ UNCHANGED << codecVars, dbVars >>

\* The worker answers a request with one line, any line.
WorkerAnswer ==
    /\ alive
    /\ HasRequest
    /\ \E ln \in Replies(stdin[1].req) : Answer(ln)

\* The worker answers a request with its argument.
WorkerEcho ==
    /\ alive
    /\ HasRequest
    /\ Answer(EchoReply(stdin[1].req))

\* The worker writes a line that answers no request.
WorkerUnsolicited(ln) ==
    /\ alive
    /\ nExtra < MaxUnsolicited
    /\ stdout' = Append(stdout, [re |-> 0, line |-> ln])
    /\ nExtra' = nExtra + 1
    /\ UNCHANGED << process, pipes, request_id, lock, pc, call, last, nCalls, spawns, assigned >>
    /\ UNCHANGED << alive, stdin, dropped >>
    /\ UNCHANGED << codecVars, dbVars >>

\* The worker process exits: its ends of the pipes close.
WorkerExit ==
    /\ alive
    /\ alive' = FALSE
    /\ UNCHANGED << process, pipes, request_id, lock, pc, call, last, nCalls, spawns, assigned >>
    /\ UNCHANGED << stdin, stdout, nExtra, dropped >>
    /\ UNCHANGED << codecVars, dbVars >>

\* ------------------------------------------------ a request on its way
\* The characters strings are made of: a letter, and the characters that
\* mean something to the writer or to the reader of the text.
CodecAlphabet == { "a", "n", "\"", "\\", "\n", ",", "]" }
CodecStrings == UNION { [1..k -> CodecAlphabet] : k \in 0..MaxStrLen }
CodecScalars == { JNull, JNum(0), JNum(12) } \cup { JStr(cs) : cs \in CodecStrings }
CodecValues ==
    CodecScalars
    \cup { JArr(<<>>) }
    \cup { JArr(<< v >>) : v \in CodecScalars }
    \cup { JArr(<< JArr(<< v >>), JNull >>) : v \in CodecScalars }
CodecArgs ==
    { <<>> }
    \cup { << v >> : v \in CodecValues }
    \cup { << JStr(<< "a" >>), v >> : v \in CodecValues }
CodecCommands == { << "g", "o" >>, << "a", "\n" >> }
CodecIds == { 1, 27, 405 }

\* The requests send_command may have to write.
CodecRequests == [id : CodecIds, command : CodecCommands, args : CodecArgs]

\* send_command has built request q.
InitCodec ==
    /\ InitBridge
    /\ InitDb(EmptyStore)
    /\ \E q \in CodecRequests : wire = [NoWire EXCEPT !.stage = "request", !.req = q]
    /\ reply = NoReply

\* request.to_string()
EncodeStep ==
    /\ wire.stage = "request"
    /\ wire' = [wire EXCEPT !.stage = "encoded", !.text = EncodeRequest(wire.req)]
    /\ UNCHANGED << reply, bridgeVars, dbVars >>

\* writeln!(stdin, "{}", ..): the text and the newline go into the pipe.
WritelnStep ==
    /\ wire.stage = "encoded"
    /\ wire' = [wire EXCEPT !.stage = "written", !.line = Writeln(wire.text)]
    /\ UNCHANGED << reply, bridgeVars, dbVars >>

\* The worker reads a line off the pipe and decodes it.
WorkerDecode ==
    /\ wire.stage = "written"
    /\ wire' = [wire EXCEPT !.stage = "decoded", !.out = DecodeRequest(FirstLine(wire.line)),
                            !.line = AfterFirstLine(wire.line)]
    /\ UNCHANGED << reply, bridgeVars, dbVars >>

NextCodec == EncodeStep \/ WritelnStep \/ WorkerDecode

SpecCodec == InitCodec /\ [][NextCodec]_vars

\* ------------------------------------------------ a response on its way
Mem(k, v) == [key |-> k, val |-> v]

\* What a line may say of each field: nothing, null, a value of the field's
\* type, a value of another type.
IdMembers ==
    { <<>>, << Mem("id", JNull) >>, << Mem("id", JNum(7)) >>, << Mem("id", JStr(<< "7" >>)) >>,
      << Mem("id", JOther("neg")) >>, << Mem("id", JOther("float")) >> }
ResultMembers ==
    { <<>>, << Mem("result", JNull) >>, << Mem("result", JStr(<< "a" >>)) >>,
      << Mem("result", JArr(<<>>)) >>, << Mem("result", JOther("obj")) >> }
ErrorMembers ==
    { <<>>, << Mem("error", JNull) >>, << Mem("error", JStr(<<>>)) >>,
      << Mem("error", JStr(<< "e" >>)) >>, << Mem("error", JNum(5)) >>,
      << Mem("error", JOther("bool")) >> }
ExtraMembers == { <<>>, << Mem("status", JStr(<< "o", "k" >>)) >> }

\* The lines a worker may write: objects with the fields in either order and
\* with a field twice, arrays, other values, and text that is no JSON.
Docs ==
    { ObjectDoc(i \o r \o e \o x) :
        i \in IdMembers, r \in ResultMembers, e \in ErrorMembers, x \in ExtraMembers }
    \cup { ObjectDoc(x \o e \o r \o i) :
        i \in IdMembers, r \in ResultMembers, e \in ErrorMembers, x \in ExtraMembers }
    \cup { ObjectDoc(i \o r \o j) :
        i \in IdMembers, r \in ResultMembers, j \in IdMembers \cup ErrorMembers \cup ResultMembers }
    \cup { ArrayDoc(<<>>),
           ArrayDoc(<< JNum(7), JNull, JStr(<< "e" >>) >>),
           ArrayDoc(<< JNull, JStr(<< "a" >>), JNull >>),
           ArrayDoc(<< JNum(7), JStr(<< "a" >>) >>),
           ArrayDoc(<< JStr(<< "7" >>), JNull, JNull >>),
           ArrayDoc(<< JNum(7), JNull, JNull, JNull >>),
           ScalarDoc, InvalidDoc }

\* read_line has given send_command a line.
InitDecode ==
    /\ InitBridge
    /\ InitDb(EmptyStore)
    /\ wire = NoWire
    /\ \E d \in Docs : reply = [NoReply EXCEPT !.stage = "line", !.doc = d]

\* serde_json::from_str(&line)
FromStrStep ==
    /\ reply.stage = "line"
    /\ reply' = [reply EXCEPT !.stage = "decoded", !.resp = FromStr(reply.doc)]
    /\ UNCHANGED << wire, bridgeVars, dbVars >>

\* .map_err(..)?, if let Some(error) .. return Err(error), Ok(..)
ReturnStep ==
    /\ reply.stage = "decoded"
    /\ reply' = [reply EXCEPT !.stage = "returned", !.ret = Returned(reply.resp)]
    /\ UNCHANGED << wire, bridgeVars, dbVars >>

NextDecode == FromStrStep \/ ReturnStep

SpecDecode == InitDecode /\ [][NextDecode]_vars

\* ------------------------------------------------- the Database methods
\* The values of created_at, and the names, that callers give.
CreatedAts == { << "1" >>, << "2" >> }
NameA == << "a" >>

\* The profiles a database file may hold: none; p1 in group g1; p1 in a group
\* and p2, inserted after it, in group g1 or in none, with proxy x1.
ProfileTables ==
    { <<>>, << Row("p1", NameA, "g1", "", << "1" >>) >> }
    \cup { << Row("p1", NameA, g, "", c), Row("p2", NameA, h, "x1", d) >> :
             g \in {"g1", "g2"}, h \in {"", "g1"}, c \in CreatedAts, d \in CreatedAts }

\* The groups it may hold: none, g1, or g1 and g2 under names in either order.
GroupTables ==
    { <<>>,
      << Row("g1", NameA, "", "", << "1" >>) >>,
      << Row("g1", NameA, "", "", << "1" >>), Row("g2", << "B" >>, "", "", << "1" >>) >>,
      << Row("g1", << "a", "b" >>, "", "", << "1" >>), Row("g2", NameA, "", "", << "2" >>) >> }

\* The proxies or workflows it may hold: none, or rows i and j, j inserted
\* after i, with its created_at after or before.
PairTable(i, j, v) ==
    CASE v = 1 -> <<>>
      [] v = 2 -> << Row(i, NameA, "", "", << "1" >>), Row(j, NameA, "", "", << "2" >>) >>
      [] v = 3 -> << Row(i, NameA, "", "", << "2" >>), Row(j, NameA, "", "", << "1" >>) >>

\* The databases Database::new may open: the file is kept from run to run,
\* and may hold rows that another build of the application wrote.
Stores ==
    { [profiles |-> p, groups |-> g, proxies |-> x[1], workflows |-> x[2]] :
        p \in ProfileTables, g \in GroupTables,
        x \in { << PairTable("x1", "x2", v), PairTable("w1", "w2", v) >> : v \in 1..3 } }

\* The calls of the Database methods.
DbInput(o, k, i, r) == [op |-> o, kind |-> k, id |-> i, row |-> r]
DbInputs ==
    { DbInput("delete_group", "groups", g, NoRow) : g \in {"g1", "g2"} }
    \cup { DbInput("get", k, "", NoRow) : k \in Kinds }
    \cup { DbInput("get_one", "profiles", "p1", NoRow),
           DbInput("get_one", "proxies", "x2", NoRow),
           DbInput("get_one", "workflows", "w3", NoRow) }
    \cup { DbInput("create", "profiles", "", Row("p1", NameA, "g1", "", << "1" >>)),
           DbInput("create", "profiles", "", Row("p3", NameA, "g3", "", << "1" >>)) }
    \cup { DbInput("create", "groups", "", Row("g1", NameA, "", "", << "1" >>)),
           DbInput("create", "proxies", "", Row("x1", NameA, "", "", << "1" >>)),
           DbInput("create", "workflows", "", Row("w1", NameA, "", "", << "1" >>)) }

\* The caller that waits in read_line, if there is one.
Reader ==
    IF \E t \in Callers : pc[t] = "read"
    THEN CHOOSE t \in Callers : pc[t] = "read"
    ELSE NoCaller

\* A command handler calls a Database method.
DbInvoke(t, in) ==
    /\ dpc[t] = "idle"
    /\ pc[t] = "idle"
    /\ nDbCalls < MaxDbCalls
    /\ nDbCalls' = nDbCalls + 1
    /\ dpc' = [dpc EXCEPT ![t] = "dlock"]
    /\ dcall' = [dcall EXCEPT ![t] = [op |-> in.op, kind |-> in.kind, id |-> in.id,
                                       row |-> in.row, before |-> EmptyStore,
                                       reading |-> Reader]]
    /\ UNCHANGED << store, dblock, dlast >>
    /\ UNCHANGED << bridgeVars, codecVars >>

\* A different DbAcquire: the connection is taken only when the bridge's
\* lock is free too, as if one lock guarded both.
DbAcquireWithBridge(t) ==
    /\ dpc[t] = "dlock"
    /\ dblock = NoCaller
    /\ lock = NoCaller
    /\ dblock' = t
    /\ dpc' = [dpc EXCEPT ![t] = "run"]
    /\ dcall' = [dcall EXCEPT ![t].before = store]
    /\ UNCHANGED << store, dlast, nDbCalls >>
    /\ UNCHANGED << bridgeVars, codecVars >>

\* self.conn.lock(): blocks until the connection's mutex is free.
DbAcquire(t) ==
    /\ dpc[t] = "dlock"
    /\ dblock = NoCaller
    /\ dblock' = t
    /\ dpc' = [dpc EXCEPT ![t] = "run"]
    /\ dcall' = [dcall EXCEPT ![t].before = store]
    /\ UNCHANGED << store, dlast, nDbCalls >>
    /\ UNCHANGED << bridgeVars, codecVars >>

\* The method returns r and leaves the database st; its guard is dropped.
DbReturn(t, r, st) ==
    /\ store' = st
    /\ dpc' = [dpc EXCEPT ![t] = "idle"]
    /\ dcall' = [dcall EXCEPT ![t] = NoDbCall]
    /\ dlast' = [call |-> dcall[t], ret |-> r, after |-> st]
    /\ dblock' = IF dblock = t THEN NoCaller ELSE dblock
    /\ UNCHANGED nDbCalls
    /\ UNCHANGED << bridgeVars, codecVars >>

\* create_profile, create_proxy, create_workflow, create_group: an INSERT
\* that does not compile fails; the INSERT fails on an id that is stored
\* (PRIMARY KEY); else the row is added and the method returns a clone of
\* what it was given.
Create(t) ==
    /\ dpc[t] = "run"
    /\ dcall[t].op = "create"
    /\ IF ~InsertCompiles(dcall[t].kind)
       THEN DbReturn(t, DbErr(ValueCountErrorText), store)
       ELSE IF dcall[t].row.id \in Ids(store[dcall[t].kind])
       THEN DbReturn(t, DbErr(UniqueErrorText), store)
       ELSE DbReturn(t, DbOk(<< dcall[t].row >>),
                     [store EXCEPT ![dcall[t].kind] = Append(@, dcall[t].row)])

\* get_profile, get_proxy, get_workflow (groups have no such method): the
\* whole table is listed, and the first row with the id is returned, if any.
GetOne(t) ==
    /\ dpc[t] = "run"
    /\ dcall[t].op = "get_one"
    /\ \E rows \in Select(dcall[t].kind, store[dcall[t].kind]) :
         DbReturn(t, DbOk(Find(rows, dcall[t].id)), store)

\* get_profiles, get_proxies, get_workflows, get_groups: the SELECT's rows.
GetAll(t) ==
    /\ dpc[t] = "run"
    /\ dcall[t].op = "get"
    /\ \E rows \in Select(dcall[t].kind, store[dcall[t].kind]) :
         DbReturn(t, DbOk(rows), store)

\* A different DeleteGroupClear: the connection is released between the two
\* statements and not taken again.
DeleteGroupClearUnlocked(t) ==
    /\ dpc[t] = "run"
    /\ dcall[t].op = "delete_group"
    /\ store' = [store EXCEPT !.profiles = ClearGroup(@, dcall[t].id)]
    /\ dpc' = [dpc EXCEPT ![t] = "delete"]
    /\ dblock' = NoCaller
    /\ UNCHANGED << dcall, dlast, nDbCalls >>
    /\ UNCHANGED << bridgeVars, codecVars >>

\* delete_group, first statement: the group's profiles lose their group_id.
DeleteGroupClear(t) ==
    /\ dpc[t] = "run"
    /\ dcall[t].op = "delete_group"
    /\ store' = [store EXCEPT !.profiles = ClearGroup(@, dcall[t].id)]
    /\ dpc' = [dpc EXCEPT ![t] = "delete"]
    /\ UNCHANGED << dblock, dcall, dlast, nDbCalls >>
    /\ UNCHANGED << bridgeVars, codecVars >>

\* delete_group, second statement: the group's row is deleted; Ok(()).
DeleteGroupDelete(t) ==
    /\ dpc[t] = "delete"
    /\ DbReturn(t, DbOk(<<>>), [store EXCEPT !.groups = Without(@, dcall[t].id)])

\* A different UpdateRow: the stored row is replaced by the given one, its
\* created_at with it (INSERT OR REPLACE).
UpdateRowWhole(k, old, new) == new

\* The SET lists of the UPDATEs: every column but id and created_at gets the
\* given value. Only profiles have the columns group_id and proxy_id.
UpdateRow(k, old, new) ==
    IF k = "profiles"
    THEN [old EXCEPT !.name = new.name, !.group_id = new.group_id,
                     !.proxy_id = new.proxy_id, !.updated_at = new.updated_at]
    ELSE [old EXCEPT !.name = new.name, !.updated_at = new.updated_at]

\* UPDATE k SET .. WHERE id = ?1: the row with the id of new, if there is
\* one, is changed where it is.
UpdateWhere(k, tbl, new) ==
    [n \in 1..Len(tbl) |->
        IF tbl[n].id = new.id THEN UpdateRow(k, tbl[n], new) ELSE tbl[n]]

\* update_profile, update_proxy, update_workflow, update_group: one UPDATE;
\* Ok(()) whether a row had the id or none.
Update(t) ==
    /\ dpc[t] = "run"
    /\ dcall[t].op = "update"
    /\ DbReturn(t, DbOk(<<>>),
                [store EXCEPT ![dcall[t].kind] = UpdateWhere(dcall[t].kind, @, dcall[t].row)])

\* delete_profile, delete_proxy, delete_workflow: one DELETE on the one
\* table; Ok(()) whether a row had the id or none.
Delete(t) ==
    /\ dpc[t] = "run"
    /\ dcall[t].op = "delete"
    /\ DbReturn(t, DbOk(<<>>), [store EXCEPT ![dcall[t].kind] = Without(@, dcall[t].id)])

DbStep ==
    \E t \in Callers :
        \/ \E in \in DbInputs : DbInvoke(t, in)
        \/ DbAcquire(t)
        \/ Create(t)
        \/ GetAll(t)
        \/ GetOne(t)
        \/ DeleteGroupClear(t)
        \/ DeleteGroupDelete(t)

\* The application started on a database file that holds any of Stores.
InitStores ==
    /\ InitBridge
    /\ wire = NoWire
    /\ reply = NoReply
    /\ \E st \in Stores : InitDb(st)

NextDb == DbStep

SpecDb == InitStores /\ [][NextDb]_vars

\* ------------------------------------------------------- specifications
CallerStep ==
    \E t \in Callers :
        \/ \E in \in Inputs : Invoke(t, in)
        \/ Acquire(t)
        \/ CheckRunning(t)
        \/ SpawnOk(t)
        \/ SpawnFail(t)
        \/ TakeId(t)
        \/ WriteBody(t)
        \/ WriteNewline(t)
        \/ WriteFail(t)
        \/ ReadLine(t)
        \/ ReadEof(t)

\* Any worker: it may answer with any line, write unasked, and exit.
Next ==
    \/ CallerStep
    \/ WorkerAnswer
    \/ \E ln \in UnsolicitedLines : WorkerUnsolicited(ln)
    \/ WorkerExit

Spec == Init /\ [][Next]_vars

\* The caller's steps when spawning succeeds and the worker stays up.
CallerStepOk ==
    \E t \in Callers :
        \/ \E in \in Inputs : Invoke(t, in)
        \/ Acquire(t)
        \/ CheckRunning(t)
        \/ SpawnOk(t)
        \/ TakeId(t)
        \/ WriteBody(t)
        \/ WriteNewline(t)
        \/ ReadLine(t)

\* A worker that keeps the protocol: one line per request line, in order,
\* and nothing else on its output.
NextProto ==
    \/ CallerStepOk
    \/ WorkerAnswer

SpecProto == Init /\ [][NextProto]_vars

\* The steps of a call that has the lock: the thread runs when it can.
CallRuns(t) ==
    \/ CheckRunning(t)
    \/ SpawnOk(t)
    \/ TakeId(t)
    \/ WriteBody(t)
    \/ WriteNewline(t)
    \/ ReadLine(t)

\* Every thread in a call runs; a caller that waits for the lock gets it once
\* it stays free (the number of calls is bounded, so no caller is overtaken
\* for ever); and the worker answers a request it has.
Fairness ==
    /\ \A t \in Callers : WF_vars(CallRuns(t))
    /\ \A t \in Callers : WF_vars(Acquire(t))
    /\ WF_vars(WorkerAnswer)

SpecLive == Init /\ [][NextProto]_vars /\ Fairness

\* An echoing worker: it answers each request line with one line whose result
\* is the request's argument.
NextEcho ==
    \/ CallerStepOk
    \/ WorkerEcho

SpecEcho == Init /\ [][NextEcho]_vars

\* An echoing worker, and callers that may panic while they wait for it.
NextPoison ==
    \/ CallerStepOk
    \/ WorkerEcho
    \/ \E t \in Callers : Panic(t)
    \/ \E t \in Callers : LockFail(t)

SpecPoison == Init /\ [][NextPoison]_vars

\* ---- updates and deletes
\* The Database calls that threads make one after another or at once.
MaxStoreCalls == 2

\* A row with all its columns given: updated_at may differ from created_at.
Rec(i, nm, g, x, c, u) == [Row(i, nm, g, x, c) EXCEPT !.updated_at = u]

NameB == << "b" >>

\* A database file with rows in every table: p1 and p2 in group g1, p2 with
\* proxy x1.
FullStore ==
    [profiles |-> << Row("p1", NameA, "g1", "", << "1" >>),
                     Row("p2", NameA, "g1", "x1", << "1" >>) >>,
     groups |-> << Row("g1", NameA, "", "", << "1" >>) >>,
     proxies |-> << Row("x1", NameA, "", "", << "1" >>),
                    Row("x2", NameA, "", "", << "2" >>) >>,
     workflows |-> << Row("w1", NameA, "", "", << "1" >>) >>]

WriteStores == { EmptyStore, FullStore }

\* Updates of rows that are stored and of rows that are not, with a
\* created_at other than the stored one and with a group_id and a proxy_id
\* that no row has; deletes of ids that are stored and of ids that are not;
\* creates.
WriteInputs ==
    { DbInput("update", "profiles", "", Rec(i, NameB, "g3", "x3", << "2" >>, << "2" >>)) :
        i \in {"p1", "p3"} }
    \cup { DbInput("update", "proxies", "", Rec("x1", NameB, "", "", << "2" >>, << "2" >>)),
           DbInput("update", "workflows", "", Rec("w1", NameB, "", "", << "2" >>, << "2" >>)),
           DbInput("update", "groups", "", Rec("g1", NameB, "", "", << "2" >>, << "2" >>)) }
    \cup { DbInput("delete", "profiles", "p1", NoRow),
           DbInput("delete", "proxies", "x1", NoRow),
           DbInput("delete", "proxies", "x3", NoRow),
           DbInput("delete", "workflows", "w3", NoRow),
           DbInput("delete_group", "groups", "g3", NoRow) }
    \cup { DbInput("create", "profiles", "", Row("p3", NameA, "g3", "x3", << "1" >>)),
           DbInput("create", "proxies", "", Row("x3", NameA, "", "", << "1" >>)) }

\* A command handler calls a Database method (as DbInvoke; at most
\* MaxStoreCalls calls).
StoreInvoke(t, in) ==
    /\ dpc[t] = "idle"
    /\ pc[t] = "idle"
    /\ nDbCalls < MaxStoreCalls
    /\ nDbCalls' = nDbCalls + 1
    /\ dpc' = [dpc EXCEPT ![t] = "dlock"]
    /\ dcall' = [dcall EXCEPT ![t] = [op |-> in.op, kind |-> in.kind, id |-> in.id,
                                       row |-> in.row, before |-> EmptyStore,
                                       reading |-> Reader]]
    /\ UNCHANGED << store, dblock, dlast >>
    /\ UNCHANGED << bridgeVars, codecVars >>

\* The statements of the methods, each run by the thread that has the
\* connection.
Statement(t) ==
    \/ Create(t)
    \/ GetAll(t)
    \/ GetOne(t)
    \/ Update(t)
    \/ Delete(t)
    \/ DeleteGroupClear(t)
    \/ DeleteGroupDelete(t)

WriteStep ==
    \E t \in Callers :
        \/ \E in \in WriteInputs : StoreInvoke(t, in)
        \/ DbAcquire(t)
        \/ Create(t)
        \/ Update(t)
        \/ Delete(t)
        \/ DeleteGroupClear(t)
        \/ DeleteGroupDelete(t)

InitWrite ==
    /\ InitBridge
    /\ wire = NoWire
    /\ reply = NoReply
    /\ \E st \in WriteStores : InitDb(st)

NextWrite == WriteStep

SpecWrite == InitWrite /\ [][NextWrite]_vars

\* Calls of every kind of method made at once on the full database: a group
\* is deleted while its profiles are read, put into it again or listed.
LockInputs ==
    { DbInput("delete_group", "groups", "g1", NoRow),
      DbInput("get_one", "profiles", "p1", NoRow),
      DbInput("get", "profiles", "", NoRow),
      DbInput("update", "profiles", "", Rec("p1", NameA, "g1", "", << "1" >>, << "2" >>)),
      DbInput("create", "groups", "", Row("g1", NameA, "", "", << "2" >>)),
      DbInput("delete", "proxies", "x1", NoRow) }

LockStep ==
    \E t \in Callers :
        \/ \E in \in LockInputs : StoreInvoke(t, in)
        \/ DbAcquire(t)
        \/ Statement(t)

InitLock ==
    /\ InitBridge
    /\ wire = NoWire
    /\ reply = NoReply
    /\ InitDb(FullStore)

NextLock == LockStep

SpecLock == InitLock /\ [][NextLock]_vars

\* ---- bridge and database together
\* The Database calls made next to send_command calls.
BothInputs ==
    { DbInput("get", "profiles", "", NoRow),
      DbInput("create", "groups", "", Row("g1", NameA, "", "", << "2" >>)) }

BothStores == { EmptyStore, [EmptyStore EXCEPT !.profiles = << Row("p1", NameA, "", "", << "1" >>) >>] }

DbStepBoth ==
    \E t \in Callers :
        \/ \E in \in BothInputs : DbInvoke(t, in)
        \/ DbAcquire(t)
        \/ Create(t)
        \/ GetAll(t)

InitBoth ==
    /\ InitBridge
    /\ wire = NoWire
    /\ reply = NoReply
    /\ \E st \in BothStores : InitDb(st)

\* Command handlers call send_command and Database methods, each thread one
\* at a time; the worker answers when it does, with an echo.
NextBoth ==
    \/ CallerStepOk
    \/ WorkerEcho
    \/ DbStepBoth

SpecBoth == InitBoth /\ [][NextBoth]_vars

\* ------------------------------------------------------------------ claims
\* A caller is between acquiring the process lock and returning.
InLock(t) == pc[t] \in {"check", "spawn", "id", "write", "newline", "read"}

\* A caller has written (part of) its request and has not yet read a line.
InRoundTrip(t) == pc[t] \in {"newline", "read"}

\* C1: at most one caller is between acquiring the lock and returning, and it
\* holds the lock all the way (the lock is not released between its write and
\* its read), so at most one request is written and not yet read for, and no
\* other caller is past the lock while one is in its round trip.
C1_OneRoundTripAtATime ==
    /\ Cardinality({t \in Callers : InLock(t)}) <= 1
    /\ \A t \in Callers : InLock(t) => lock = t
    /\ lock # NoCaller => InLock(lock)
    /\ Cardinality({t \in Callers : pc[t] = "read"}) <= 1
    /\ \A t, u \in Callers : InRoundTrip(t) /\ u # t => pc[u] \in {"idle", "lock"}

\* C1's case: a caller waits for its response line, holding the lock, while
\* another caller waits for the lock.
C1_Witness ==
    \E t, u \in Callers : t # u /\ pc[t] = "read" /\ lock = t /\ pc[u] = "lock"

\* C2: against an echoing worker every call returns its own argument, and the
\* only request ever pending at the worker is the latest one: the worker has
\* answered every earlier request before it receives the next.
C2_EchoNoCrossTalk ==
    /\ last.ret # NoRet => last.ret = Ok(EchoValue(last.call.args))
    /\ Len(stdin) <= 2
    /\ \A i \in 1..Len(stdin) : stdin[i].req.id = Len(assigned)

\* C2's case: the caller of A got A back while the caller of B is in its call.
C2_Witness ==
    /\ last.call.args = <<"A">>
    /\ last.ret = Ok("A")
    /\ \E u \in Callers : pc[u] = "read" /\ call[u].args = <<"B">>

\* C3: at most one worker process is ever spawned; the slot holds it from then
\* on; a caller is at the spawn only with the slot empty and the lock held;
\* every caller past the spawn has the one process.
C3_SingleSpawn ==
    /\ spawns <= 1
    /\ process = spawns
    /\ \A t \in Callers : pc[t] = "spawn" => process = 0 /\ lock = t
    /\ \A t \in Callers : pc[t] \in {"id", "write", "newline", "read"} => spawns = 1

\* C3's case: a second call got past the check without spawning.
C3_Witness ==
    /\ spawns = 1
    /\ Len(assigned) = 1
    /\ \E t \in Callers : pc[t] = "id"

\* C4: the ids given out are 1, 2, 3, ... in order (strictly increasing, none
\* twice), and the counter is always one more than the last id given out,
\* whatever spawning and the worker did.
C4_IdsStrictlyIncreasing ==
    /\ \A i \in 1..Len(assigned) : assigned[i] = i
    /\ request_id = Len(assigned) + 1
    /\ \A t \in Callers :
         pc[t] \in {"write", "newline", "read"} => call[t].id = Len(assigned)

\* C4's case: a call took id 2 after the worker had died under the first call.
C4_Witness ==
    /\ ~alive
    /\ last.ret.kind = "TransportFailure"
    /\ \E t \in Callers : pc[t] = "write" /\ call[t].id = 2

\* C5: with a worker that keeps the protocol, the worker's input holds the
\* chunks of one request at most, of one caller, text first and newline
\* second, and it is the latest request; a line waiting on the worker's
\* output was written for the request of the caller that waits to read; and
\* every call read the line written for its own request.
C5_TotalOrderNoInterleaving ==
    /\ Len(stdin) <= 2
    /\ \A i \in 1..Len(stdin) :
         /\ stdin[i].part = (IF i = 1 THEN "body" ELSE "nl")
         /\ stdin[i].by = stdin[1].by
         /\ stdin[i].req = stdin[1].req
         /\ stdin[i].req.id = Len(assigned)
    /\ \A t \in Callers : pc[t] = "newline" => Len(stdin) = 1 /\ stdin[1].by = t
    /\ Len(stdout) <= 1
    /\ stdout # <<>> => \E t \in Callers : pc[t] = "read" /\ call[t].id = stdout[1].re
    /\ last.call.line # NoLine => last.call.re = last.call.id

\* C5's case: a caller has written its request's text and not yet the
\* newline, while another caller waits to write.
C5_Witness ==
    \E t, u \in Callers :
        t # u /\ pc[t] = "newline" /\ Len(stdin) = 1 /\ pc[u] = "lock"

\* The line the last call read decoded with a non-empty error field.
LastHasError ==
    /\ last.call.line.fmt = "json"
    /\ IsSome(last.call.line.error)
    /\ Unwrap(last.call.line.error) # ""

\* C6: a call whose line decodes with a non-empty error fails, and its message
\* is that field's text, also when the line carries a result.
C6_WorkerErrorFails ==
    LastHasError =>
        /\ last.ret.tag = "Err"
        /\ last.ret.val = Unwrap(last.call.line.error)

\* C6's case: the line carried both an error and a result.
C6_Witness ==
    /\ LastHasError
    /\ IsSome(last.call.line.result)
    /\ last.ret.tag = "Err"

\* C7: a call whose line decodes without an error field succeeds with the
\* line's result, and with null when the line has no result.
C7_NoErrorSucceeds ==
    (last.call.line.fmt = "json" /\ ~IsSome(last.call.line.error)) =>
        last.ret = Ok(IF IsSome(last.call.line.result)
                      THEN Unwrap(last.call.line.result) ELSE JsonNull)

\* C7's case: the line's result was the empty array, and the call returned it.
C7_Witness ==
    /\ last.call.line.fmt = "json"
    /\ last.call.line.error = None
    /\ last.call.line.result = Some(JsonEmptyArray)
    /\ last.ret = Ok(JsonEmptyArray)

\* C8 as claimed: a call whose read reached end-of-stream (the worker exited
\* after taking the request, before writing a line) fails with a
\* TransportFailure.
C8_EofIsTransportFailure ==
    last.call.line = EofLine =>
        last.ret.tag = "Err" /\ last.ret.kind = "TransportFailure"

\* The line the last call read does not decode: text that is no JSON, or
\* bytes that are no text.
LastLineBad == last.call.line.fmt \in {"text", "bytes"}

\* C9: a call that read text that is no JSON fails with MalformedResponse, one
\* that read a line that is no UTF-8 fails with read_line's error; either way
\* the call that returns next has the next id, has read the line the worker
\* wrote for its own request, and returns what that line says.
C9_MalformedThenNextCall ==
    [][ /\ last'.call.line = TextLine =>
              last'.ret = Err("MalformedResponse", ParseErrorText(TextLine))
        /\ last'.call.line = BytesLine =>
              last'.ret = Err("TransportFailure", InvalidUtf8Text)
        /\ (LastLineBad /\ last' # last) =>
              /\ last'.call.id = last.call.id + 1
              /\ last'.call.re = last'.call.id
              /\ last'.ret = AfterRead(last'.call.line)
      ]_vars

\* C9 as claimed: a call that read any line that is no valid response, text
\* or not, fails with MalformedResponse.
C9_AnyBadLineIsMalformed ==
    LastLineBad => last.ret.tag = "Err" /\ last.ret.kind = "MalformedResponse"

\* C9's case: the last call failed on a malformed line, and the line the
\* worker wrote for the next call's request waits to be read by it.
C9_Witness ==
    /\ last.call.line = TextLine
    /\ last.ret.kind = "MalformedResponse"
    /\ \E t \in Callers :
         /\ pc[t] = "read"
         /\ stdout # <<>>
         /\ stdout[1].re = call[t].id
         /\ stdout[1].line = EchoReply(Request(t))

\* C10 as claimed: a call takes exactly one line out of the worker's output;
\* no line the worker wrote is taken out of the stream without a call being
\* given it.
C10_ReadsExactlyOneLine == dropped = 0

\* The worker was spawned and has exited.
WorkerDead == spawns >= 1 /\ ~alive

\* C11: once a worker has been spawned no step spawns another or changes the
\* slot; and with the worker dead no call gets a write through: a call that
\* returns from its write returns the pipe's error, and a call that returns
\* from its read of the emptied stream returns an error too.
C11_DeadWorkerStaysDead ==
    [][ /\ spawns >= 1 => spawns' = spawns /\ process' = process
        /\ \A t \in Callers :
             (WorkerDead /\ pc[t] \in {"write", "newline"}) =>
                 /\ pc'[t] \in {pc[t], "idle"}
                 /\ pc'[t] = "idle" =>
                        last'.ret = Err("TransportFailure", BrokenPipeText)
        /\ \A t \in Callers :
             (WorkerDead /\ pc[t] = "read" /\ stdout = <<>> /\ pc'[t] = "idle") =>
                 last'.ret.tag = "Err"
      ]_vars

\* C11's case: the worker died after the first call; the second call, started
\* with the slot still filled, failed on its write and nothing was spawned.
C11_Witness ==
    /\ WorkerDead
    /\ spawns = 1
    /\ process = 1
    /\ last.call.id = 2
    /\ last.ret = Err("TransportFailure", BrokenPipeText)

\* C12 as claimed: a call that returns a TransportFailure leaves the slot
\* empty, so that the next call spawns a new worker.
C12_TransportFailureClearsSlot ==
    [][ (last' # last /\ last'.ret.tag = "Err" /\ last'.ret.kind = "TransportFailure")
            => process' = 0 ]_vars

\* How many times step s occurs in the steps of call c.
Times(c, s) == Cardinality({i \in 1..Len(c.steps) : c.steps[i] = s})

\* c performed step s.
Has(c, s) == Times(c, s) >= 1

WaitsOnSilentWorker(t) == pc[t] = "read" /\ alive /\ stdout = <<>>

\* C14: as long as the worker stays up and writes nothing, the caller that
\* waits for its line keeps waiting with the lock held, no call returns, and
\* no other caller gets past the lock: nothing but the worker ends the wait.
C14_SilentWorkerBlocksAll ==
    [][ \A t \in Callers :
          (WaitsOnSilentWorker(t) /\ alive' /\ stdout' = <<>>) =>
              /\ pc'[t] = "read"
              /\ lock' = t
              /\ call'[t] = call[t]
              /\ last' = last
              /\ \A u \in Callers \ {t} :
                    /\ pc'[u] \in {"idle", "lock"}
                    /\ pc[u] = "lock" => pc'[u] = "lock"
      ]_vars

\* C14's case: the worker has the whole request and has written nothing; the
\* caller waits for the line and another caller, started since, for the lock.
C14_Witness ==
    \E t, u \in Callers :
        /\ t # u
        /\ WaitsOnSilentWorker(t)
        /\ HasRequest
        /\ stdin[1].req.id = call[t].id
        /\ pc[u] = "lock"
        /\ lock = t

\* The values a response line's id field may have: absent, or any of the ids
\* the bridge gives out and some it does not.
IdVariants == { None } \cup { Some(n) : n \in 0..(MaxCalls + 1) }

\* C15: what a call returns does not depend on the id of the line it read:
\* the same line with the id left out, with the request's id or with any
\* other id gives the call's result.
C15_IdNeverChecked ==
    last.call.line.fmt = "json" =>
        \A i \in IdVariants :
            AfterRead([last.call.line EXCEPT !.id = i]) = last.ret

\* C15's case: a call succeeded with the line the worker wrote for another
\* request, which carries that request's id.
C15_Witness ==
    /\ last.call.line.fmt = "json"
    /\ last.call.line.id = Some(last.call.re)
    /\ last.call.re # last.call.id
    /\ last.ret.tag = "Ok"

\* The steps of StepOrder at the places S, in their order.
StepsAt(S) ==
    LET F[i \in 0..Len(StepOrder)] ==
            IF i = 0 THEN <<>>
            ELSE IF i \in S THEN Append(F[i - 1], StepOrder[i]) ELSE F[i - 1]
    IN  F[Len(StepOrder)]

\* The sequences of steps that are in the order of the code, none twice.
OrderedSteps == { StepsAt(S) : S \in SUBSET (1..Len(StepOrder)) }

\* The steps of call c are in the order of the code, none of them twice.
InOrder(c) == c.steps \in OrderedSteps

\* The steps a call may return after, by the kind of what it returns (""
\* is Ok): a spawn failure after the check of the slot or the spawn, a
\* failed write or read after it, anything else after the decoding.
FinalSteps(kind) ==
    CASE kind = "SpawnFailed" -> {"ensure", "spawn"}
      [] kind = "TransportFailure" -> {"write", "read"}
      [] OTHER -> {"decode"}

\* The steps of a whole call that returns kind: in order, from the lock and
\* the check of the slot to the unlock, which comes right after the step the
\* call returns after; a call that got to the decoding has taken an id,
\* written and read.
RunsOf(kind) ==
    { s \in OrderedSteps :
        /\ Len(s) >= 3
        /\ s[1] = "lock" /\ s[2] = "ensure" /\ s[Len(s)] = "unlock"
        /\ s[Len(s) - 1] \in FinalSteps(kind)
        /\ s[Len(s) - 1] = "decode" =>
              \A x \in {"id", "write", "read"} : \E i \in 1..Len(s) : s[i] = x }

ResultKinds ==
    { "", "SpawnFailed", "TransportFailure", "MalformedResponse", "WorkerReportedError" }

\* A kind of result with the steps of a call that returns it.
Runs == UNION { { << k, s >> : s \in RunsOf(k) } : k \in ResultKinds }

\* C20: a call performs its steps in the order lock, ensure running (with at
\* most one spawn), take id, write, read, decode, unlock, each once at most;
\* a call that failed performed nothing after the step that failed but the
\* unlock; a call that did not fail, or that the worker's error failed,
\* performed them all; and a caller that has returned does not hold the lock.
C20_StepsInOrder ==
    /\ \A t \in Callers : InOrder(call[t])
    /\ \A t \in Callers : pc[t] = "idle" => lock # t
    /\ last.ret # NoRet => << last.ret.kind, last.call.steps >> \in Runs

\* C20's case: a call on the spawned worker failed at its write, and returned
\* with the lock, the check of the slot, the id and the write behind it.
C20_Witness ==
    /\ last.ret.kind = "TransportFailure"
    /\ last.call.steps = << "lock", "ensure", "id", "write", "unlock" >>
    /\ lock = NoCaller

\* C16: the text of a request has no newline in it; what is written is that
\* text and one newline, the last character; and the reader of the line gets
\* the id, the command and the args of the request, in order, nested values
\* and an empty args list included, with nothing left over.
C16_RequestRoundTrip ==
    /\ wire.stage \in {"encoded", "written", "decoded"} =>
         \A i \in 1..Len(wire.text) : wire.text[i] # "\n"
    /\ wire.stage = "written" =>
         /\ Len(wire.line) = Len(wire.text) + 1
         /\ wire.line[Len(wire.line)] = "\n"
         /\ SubSeq(wire.line, 1, Len(wire.text)) = wire.text
    /\ wire.stage = "decoded" =>
         /\ wire.out.ok
         /\ wire.out.id = wire.req.id
         /\ wire.out.command = wire.req.command
         /\ wire.out.args = wire.req.args
         /\ wire.line = <<>>

\* C16's case: a request whose command has a newline in it and whose args
\* nest an array with a string of a quote and a backslash has been decoded.
C16_Witness ==
    /\ wire.stage = "decoded"
    /\ wire.out.ok
    /\ wire.req.command = << "a", "\n" >>
    /\ wire.out.args = << JArr(<< JArr(<< JStr(<< "\"", "\\" >>) >>), JNull >>) >>

\* The rows of table tbl, as a set.
Rows(tbl) == { tbl[i] : i \in 1..Len(tbl) }

\* The last Database call was a delete_group that succeeded.
LastDeletedGroup == dlast.call.op = "delete_group" /\ dlast.ret.tag = "Ok"

\* C17: after a delete_group(g) that succeeded no group has id g and no
\* profile has group_id g; the profiles that had it are the same rows with
\* group_id the empty string, every other profile and every other group is
\* as the call found it, and so are the proxies and the workflows.
C17_DeleteGroupFrame ==
    LastDeletedGroup =>
        LET g == dlast.call.id
            B == dlast.call.before
            A == dlast.after
        IN  /\ g \notin Ids(A.groups)
            /\ \A r \in Rows(A.profiles) : r.group_id # g
            /\ Len(A.profiles) = Len(B.profiles)
            /\ \A i \in 1..Len(B.profiles) :
                 A.profiles[i] = IF B.profiles[i].group_id = g
                                 THEN [B.profiles[i] EXCEPT !.group_id = ""]
                                 ELSE B.profiles[i]
            /\ Rows(A.groups) = { r \in Rows(B.groups) : r.id # g }
            /\ Len(A.groups) = Cardinality(Rows(A.groups))
            /\ A.proxies = B.proxies
            /\ A.workflows = B.workflows

\* C17's case: group g1 was deleted from a database with two groups, a
\* profile in g1 and a profile in g2, proxies and workflows.
C17_Witness ==
    /\ LastDeletedGroup
    /\ dlast.call.id = "g1"
    /\ Ids(dlast.call.before.groups) = {"g1", "g2"}
    /\ \E i, j \in 1..Len(dlast.call.before.profiles) :
         /\ dlast.call.before.profiles[i].group_id = "g1"
         /\ dlast.call.before.profiles[j].group_id = "g2"
    /\ dlast.call.before.proxies # <<>>
    /\ \E i \in 1..Len(store.profiles) : store.profiles[i].group_id = ""

\* The last Database call listed table k.
LastListed(k) == dlast.call.op = "get" /\ dlast.call.kind = k /\ dlast.ret.tag = "Ok"

\* The result of the last call has every row of its table once.
ListsEveryRowOnce ==
    /\ Len(dlast.ret.rows) = Len(dlast.after[dlast.call.kind])
    /\ Rows(dlast.ret.rows) = Rows(dlast.after[dlast.call.kind])

\* The place of the row with id i in table tbl: rows are inserted at the end,
\* so a row created later has the greater place.
Rowid(tbl, i) == CHOOSE n \in 1..Len(tbl) : tbl[n].id = i

\* C19: a list of profiles, proxies or workflows has every stored row once,
\* in descending order of the created_at text the rows were given; a list of
\* groups has every group once, in ascending byte order of name.
C19_ListSortedByColumn ==
    \A k \in Kinds :
        LastListed(k) =>
            /\ ListsEveryRowOnce
            /\ \A m, n \in 1..Len(dlast.ret.rows) :
                 m < n =>
                    IF k = "groups"
                    THEN ~TextLess(dlast.ret.rows[n].name, dlast.ret.rows[m].name)
                    ELSE ~TextLess(dlast.ret.rows[m].created_at, dlast.ret.rows[n].created_at)

\* C19 as claimed: a list of profiles, proxies or workflows has every stored
\* row once, a row created later before a row created earlier; a list of
\* groups has every group once in ascending order of name.
C19_NewestFirst ==
    \A k \in Kinds :
        LastListed(k) =>
            /\ ListsEveryRowOnce
            /\ \A m, n \in 1..Len(dlast.ret.rows) :
                 m < n =>
                    IF k = "groups"
                    THEN ~TextLess(dlast.ret.rows[n].name, dlast.ret.rows[m].name)
                    ELSE Rowid(dlast.after[k], dlast.ret.rows[m].id)
                           > Rowid(dlast.after[k], dlast.ret.rows[n].id)

\* C19's case: the profiles were listed, two of them, the one created later
\* with the lesser created_at, which came second.
C19_Witness ==
    /\ LastListed("profiles")
    /\ Len(dlast.ret.rows) = 2
    /\ dlast.after.profiles[1].created_at = << "2" >>
    /\ dlast.after.profiles[2].created_at = << "1" >>
    /\ dlast.ret.rows = dlast.after.profiles

\* C18: no thread is in send_command and in a Database method at once, so
\* none holds or waits for one lock while it holds or waits for the other; a
\* Database call that waits for a free connection can take it, and one that
\* has it can finish, whatever the bridge's lock and the worker do; and
\* whenever a call of either kind is in progress some step can be taken.
C18_LocksIndependent ==
    /\ \A t \in Callers : pc[t] = "idle" \/ dpc[t] = "idle"
    /\ \A t \in Callers : (lock = t \/ pc[t] = "lock") => (dblock # t /\ dpc[t] = "idle")
    /\ \A t \in Callers : (dblock = t \/ dpc[t] = "dlock") => (lock # t /\ pc[t] = "idle")
    /\ \A t \in Callers : (dpc[t] = "dlock" /\ dblock = NoCaller) => ENABLED DbAcquire(t)
    /\ \A t \in Callers : dpc[t] = "run" => dblock = t /\ ENABLED (Create(t) \/ GetAll(t))
    /\ (\E t \in Callers : pc[t] # "idle" \/ dpc[t] # "idle") => ENABLED NextBoth

\* C18's case: a Database call that began while a caller was waiting for the
\* worker's answer, the bridge's lock held, has returned; the caller is still
\* waiting, the worker has written nothing, and no send_command has returned.
C18_Witness ==
    \E t \in Callers :
        /\ WaitsOnSilentWorker(t)
        /\ lock = t
        /\ last = NoLast
        /\ dlast.call.reading = t
        /\ dlast.ret.tag = "Ok"
        /\ dlast.call.op = "create"

\* No caller has acquired the lock yet: none has returned and none is past it.
NoneAcquiredYet ==
    last = NoLast /\ \A t \in Callers : pc[t] \in {"idle", "lock"}

\* C21: until a call has acquired the lock there is no worker: the slot is
\* empty, nothing was spawned and the counter is 1; the first call to acquire
\* the lock finds the slot empty, and it gets past the check of the slot only
\* by the spawn; a caller is at the spawn only inside its call, the lock held.
C21_LazyStart ==
    /\ NoneAcquiredYet =>
          /\ process = 0 /\ pipes = NoPipes /\ spawns = 0 /\ ~alive
          /\ stdin = <<>> /\ stdout = <<>> /\ request_id = 1
    /\ \A t \in Callers :
          (last = NoLast /\ pc[t] \in {"check", "spawn"}) =>
              process = 0 /\ spawns = 0 /\ ~alive /\ lock = t
    /\ \A t \in Callers :
          (last = NoLast /\ pc[t] \in {"id", "write", "newline", "read"}) =>
              /\ call[t].steps[3] = "spawn"
              /\ spawns = 1
    /\ \A t \in Callers :
          pc[t] = "spawn" => lock = t /\ call[t].steps = << "lock", "ensure" >>

\* C21's case: the first call to acquire the lock has spawned the worker,
\* the first ever, and is about to take its id; another caller waits.
C21_Witness ==
    \E t, u \in Callers :
        /\ t # u
        /\ last = NoLast
        /\ pc[t] = "id"
        /\ call[t].steps = << "lock", "ensure", "spawn" >>
        /\ spawns = 1 /\ process = 1
        /\ pc[u] = "lock"

\* C22: a handle in the slot has its stdin and its stdout, an empty slot has
\* none; a caller about to write finds the stdin and a caller about to read
\* the stdout; and no call returns "No stdin" or "No stdout".
C22_PipesAlwaysPresent ==
    /\ process # 0 => pipes.stdin /\ pipes.stdout
    /\ process = 0 => pipes = NoPipes
    /\ \A t \in Callers : pc[t] \in {"write", "newline"} => process # 0 /\ pipes.stdin
    /\ \A t \in Callers : pc[t] = "read" => process # 0 /\ pipes.stdout
    /\ last.ret.kind # "PipeUnavailable"
    /\ last.ret.val \notin {NoStdinText, NoStdoutText}

\* C22's case: a call has written to the worker and read from it, and the
\* next call, on the same handle, has written and waits to read.
C22_Witness ==
    /\ process = 1
    /\ pipes.stdin /\ pipes.stdout
    /\ last.ret.tag = "Ok"
    /\ \E t \in Callers : pc[t] = "read" /\ call[t].id = 2

\* C23: a call that finds the mutex poisoned returns LockFailure at once, with
\* no step of its own behind it and no id; its return changes neither the
\* slot, the pipes and what is in them, the counter nor the number of spawns;
\* and the mutex stays poisoned, so no caller gets past it again.
C23_PoisonedLockFails ==
    [][ /\ \A t \in Callers :
             (pc[t] = "lock" /\ lock = Poisoned) =>
                 /\ pc'[t] \in {"lock", "idle"}
                 /\ pc'[t] = "idle" =>
                        /\ last'.ret = Err("LockFailure", PoisonErrorText)
                        /\ last'.call.steps = <<>>
                        /\ last'.call.id = 0
                        /\ process' = process /\ pipes' = pipes /\ spawns' = spawns
                        /\ request_id' = request_id /\ assigned' = assigned
                        /\ stdin' = stdin /\ stdout' = stdout /\ alive' = alive
        /\ lock = Poisoned =>
              /\ lock' = Poisoned
              /\ \A t \in Callers : pc'[t] \in {"idle", "lock", "panicked"}
      ]_vars

\* C23's case: the first call spawned the worker, took id 1 and panicked; a
\* later call has returned LockFailure, and the worker's handle, the counter
\* and the request in the pipe are as the first call left them.
C23_Witness ==
    /\ lock = Poisoned
    /\ last.ret = Err("LockFailure", PoisonErrorText)
    /\ process = 1 /\ spawns = 1
    /\ request_id = 2
    /\ Len(stdin) = 2

\* The places of key k among members ms.
Occurrences(ms, k) == { i \in 1..Len(ms) : ms[i].key = k }

\* What members ms say of field k when it occurs once at most: None for a
\* missing or null field.
Field(ms, k) ==
    IF Occurrences(ms, k) = {} THEN None
    ELSE OptionOf(ms[CHOOSE i \in Occurrences(ms, k) : TRUE].val)

\* Every id among ms is null or an unsigned integer, every error null or a
\* string.
WellTyped(ms) ==
    \A i \in 1..Len(ms) :
        /\ ms[i].key = "id" => ms[i].val.t \in {"null", "num"}
        /\ ms[i].key = "error" => ms[i].val.t \in {"null", "str"}

\* None of id, result and error occurs twice among ms.
NoFieldTwice(ms) ==
    \A k \in {"id", "result", "error"} : Cardinality(Occurrences(ms, k)) <= 1

\* C24: an object decodes exactly when each of id, result and error is
\* missing, null or of its type and none of them occurs twice, whatever other
\* fields it has and in whatever order; the decoded fields are those of the
\* object, a missing or null one being None, so that {} gives a null success;
\* an array decodes exactly when it has three items of the fields' types; any
\* other value and text that is no JSON do not decode; and a line that does
\* not decode makes the call fail with MalformedResponse.
C24_DecodeShape ==
    reply.stage \in {"decoded", "returned"} =>
        LET d == reply.doc
            r == reply.resp
        IN  /\ d.shape = "object" =>
                  (r.ok <=> (WellTyped(d.members) /\ NoFieldTwice(d.members)))
            /\ (d.shape = "object" /\ r.ok) =>
                  /\ r.id = Field(d.members, "id")
                  /\ r.result = Field(d.members, "result")
                  /\ r.error = Field(d.members, "error")
            /\ d.shape = "array" =>
                  (r.ok <=> /\ Len(d.items) = 3
                            /\ d.items[1].t \in {"null", "num"}
                            /\ d.items[3].t \in {"null", "str"})
            /\ d.shape \in {"scalar", "invalid"} => ~r.ok
            /\ reply.stage = "returned" =>
                  /\ ~r.ok => reply.ret.tag = "Err" /\ reply.ret.kind = "MalformedResponse"
                  /\ d = ObjectDoc(<<>>) => reply.ret = Ok(JsonNull)

\* C24 as claimed: every object in which each of id, result and error is
\* missing or of its type decodes; an object with a field of the wrong type
\* and text that is no JSON do not.
C24_DecodeAsClaimed ==
    reply.stage \in {"decoded", "returned"} =>
        LET d == reply.doc
            r == reply.resp
        IN  /\ (d.shape = "object" /\ WellTyped(d.members)) => r.ok
            /\ (d.shape = "object" /\ ~WellTyped(d.members)) => ~r.ok
            /\ d.shape = "invalid" => ~r.ok
            /\ reply.stage = "returned" =>
                  /\ ~r.ok => reply.ret.tag = "Err" /\ reply.ret.kind = "MalformedResponse"
                  /\ d = ObjectDoc(<<>>) => reply.ret = Ok(JsonNull)

\* C24's case: a line with a result, no error and an id that is a string made
\* the call fail with MalformedResponse.
C24_Witness ==
    /\ reply.stage = "returned"
    /\ reply.doc = ObjectDoc(<< Mem("id", JStr(<< "7" >>)), Mem("result", JStr(<< "a" >>)) >>)
    /\ reply.ret.kind = "MalformedResponse"

\* C25 as claimed: for each kind, a create with an id that is not stored
\* returns the record and adds it, so that a get of its id returns it; a
\* create with an id that is stored fails and leaves the database as it was;
\* and a get returns none exactly when no record has the id.
C25_CreateThenGet ==
    LET c == dlast.call
    IN  /\ (c.op = "create" /\ c.row.id \notin Ids(c.before[c.kind])) =>
              /\ dlast.ret = DbOk(<< c.row >>)
              /\ \A rows \in Select(c.kind, dlast.after[c.kind]) :
                    Find(rows, c.row.id) = Some(c.row)
        /\ (c.op = "create" /\ c.row.id \in Ids(c.before[c.kind])) =>
              /\ dlast.ret.tag = "Err"
              /\ dlast.after = c.before
        /\ c.op = "get_one" =>
              /\ dlast.ret.tag = "Ok"
              /\ dlast.ret.rows = None <=> c.id \notin Ids(dlast.after[c.kind])

SoftFailure(r) == r.kind \in {"WorkerReportedError", "MalformedResponse"}

\* C27: the return of a call that fails with the worker's error or on a
\* malformed line changes what the return of a call that succeeds changes,
\* no more: the slot keeps its handle with both pipes, nothing is spawned or
\* written, the counter stays and the lock is free; and the call that looks
\* at the slot next finds it filled and goes on to take its id, no spawn.
C27_SoftFailureKeepsWorker ==
    [][ /\ (last' # last /\ (last'.ret.tag = "Ok" \/ SoftFailure(last'.ret))) =>
              /\ process # 0 /\ process' = process
              /\ pipes.stdin /\ pipes.stdout /\ pipes' = pipes
              /\ spawns' = spawns /\ alive' = alive /\ stdin' = stdin
              /\ request_id' = request_id
              /\ lock' = NoCaller
        /\ \A t \in Callers :
              (SoftFailure(last.ret) /\ pc[t] = "check" /\ pc'[t] # "check") =>
                  /\ pc'[t] = "id"
                  /\ lock' = t
                  /\ process' = process /\ spawns' = spawns
      ]_vars

\* C27's case: a call failed with the worker's error; the next call has the
\* lock, found the worker of the first in the slot and is about to take id 2.
C27_Witness ==
    /\ last.ret.kind = "WorkerReportedError"
    /\ process = 1 /\ spawns = 1
    /\ \E t \in Callers :
         /\ pc[t] = "id"
         /\ lock = t
         /\ call[t].steps = << "lock", "ensure" >>
         /\ request_id = 2

\* C28: as long as no spawn has succeeded the slot is empty, no worker runs
\* and no id is taken; the return of a call whose spawn failed leaves the
\* slot empty and the lock free; a call that finds the slot empty goes to the
\* spawn, once, and from there it returns or goes on; and a spawn that
\* succeeds, after however many that failed, leaves what the first call's
\* would: the first worker in the slot, running, with both pipes and nothing
\* in them, the counter at 1 and the lock with the caller.
C28_FailedSpawnRetried ==
    [][ /\ spawns = 0 => process = 0 /\ ~alive /\ request_id = 1 /\ pipes = NoPipes
        /\ \A t \in Callers :
              /\ (pc[t] = "spawn" /\ pc'[t] = "idle") =>
                    /\ last'.ret.kind = "SpawnFailed"
                    /\ process' = 0 /\ pipes' = NoPipes /\ spawns' = spawns /\ ~alive'
                    /\ lock' = NoCaller
              /\ (pc[t] = "check" /\ process = 0 /\ pc'[t] # "check") => pc'[t] = "spawn"
              /\ pc[t] = "spawn" => pc'[t] \in {"spawn", "idle", "id"}
              /\ (pc[t] = "spawn" /\ pc'[t] = "id") =>
                    /\ process' = 1 /\ spawns' = 1 /\ alive'
                    /\ pipes'.stdin /\ pipes'.stdout
                    /\ stdin' = <<>> /\ stdout' = <<>>
                    /\ request_id' = 1 /\ assigned' = <<>>
                    /\ lock' = t
                    /\ call'[t].steps = << "lock", "ensure", "spawn" >>
      ]_vars

\* C28's case: a call failed to spawn; the next call found the slot empty,
\* spawned the worker and is about to take id 1.
C28_Witness ==
    /\ last.ret.kind = "SpawnFailed"
    /\ process = 1 /\ spawns = 1
    /\ request_id = 1
    /\ \E t \in Callers :
         /\ pc[t] = "id"
         /\ lock = t
         /\ call[t].steps = << "lock", "ensure", "spawn" >>

\* C29: a call whose line decodes fails exactly when the decoded error is
\* Some, and its message is that string, the empty string included, whether
\* or not the line has a result; a line without an error field, or with the
\* error null, makes the call succeed.
C29_PresentErrorFails ==
    (reply.stage = "returned" /\ reply.resp.ok) =>
        LET d == reply.doc
            r == reply.resp
        IN  /\ IsSome(r.error) => reply.ret = Err("WorkerReportedError", Unwrap(r.error))
            /\ ~IsSome(r.error) => reply.ret.tag = "Ok"
            /\ d.shape = "object" =>
                  \A i \in Occurrences(d.members, "error") :
                      IF d.members[i].val.t = "null"
                      THEN reply.ret.tag = "Ok"
                      ELSE reply.ret = Err("WorkerReportedError", d.members[i].val)

\* C29's case: a line with a result and with the empty string for its error
\* made the call fail, its message the empty string.
C29_Witness ==
    /\ reply.stage = "returned"
    /\ reply.doc = ObjectDoc(<< Mem("result", JStr(<< "a" >>)), Mem("error", JStr(<<>>)) >>)
    /\ reply.ret = Err("WorkerReportedError", JStr(<<>>))

\* C30: when spawning succeeds, the worker answers every request with one
\* line and a waiting caller gets the lock in the end, every call returns,
\* whatever the line says; and whenever no call is in progress the lock is
\* free.
C30_EveryCallReturns ==
    /\ \A t \in Callers : (pc[t] # "idle") ~> (pc[t] = "idle")
    /\ []((\A t \in Callers : pc[t] = "idle") => lock = NoCaller)

\* C30's case: two calls were made, the last to return failed with the
\* worker's error, no call is in progress and the lock is free.
C30_Witness ==
    /\ nCalls = 2
    /\ \A t \in Callers : pc[t] = "idle"
    /\ last.ret.kind = "WorkerReportedError"
    /\ last.call.id = 2
    /\ lock = NoCaller

\* C31: an update returns Ok; in its table the rows are the same in number
\* and place, each with the id and the created_at it had; the row with the
\* given id, if there is one, has the given name and updated_at (and, a
\* profile, the given group_id and proxy_id), every other row is as it was;
\* the other tables are as they were; and when no row has the id the
\* database is as it was.
C31_UpdateFrame ==
    dlast.call.op = "update" =>
        LET k == dlast.call.kind
            new == dlast.call.row
            b == dlast.call.before[k]
            a == dlast.after[k]
        IN  /\ dlast.ret = DbOk(<<>>)
            /\ \A j \in Kinds \ {k} : dlast.after[j] = dlast.call.before[j]
            /\ Len(a) = Len(b)
            /\ \A n \in 1..Len(b) :
                  /\ a[n].id = b[n].id
                  /\ a[n].created_at = b[n].created_at
                  /\ IF b[n].id = new.id
                     THEN /\ a[n].name = new.name
                          /\ a[n].updated_at = new.updated_at
                          /\ k = "profiles" =>
                                /\ a[n].group_id = new.group_id
                                /\ a[n].proxy_id = new.proxy_id
                     ELSE a[n] = b[n]
            /\ new.id \notin Ids(b) => dlast.after = dlast.call.before

\* C31's case: update_profile was given p1 with another name, group, proxy,
\* created_at and updated_at than the stored p1 had: the stored p1 has them
\* all but the created_at, which is the one it had, and p2 is as it was.
C31_Witness ==
    /\ dlast.call.op = "update"
    /\ dlast.call.kind = "profiles"
    /\ dlast.call.row = Rec("p1", NameB, "g3", "x3", << "2" >>, << "2" >>)
    /\ dlast.call.before.profiles = FullStore.profiles
    /\ dlast.after.profiles =
          << Rec("p1", NameB, "g3", "x3", << "1" >>, << "2" >>),
             Row("p2", NameA, "g1", "x1", << "1" >>) >>
    /\ store = dlast.after

\* The threads that have taken the connection and have not returned.
InStatements(t) == dpc[t] \in {"run", "delete"}

\* C32: a call takes the connection once, when it is free, as its first
\* step; it has it, and no other thread has, until it returns, and it no
\* longer has it when it has returned; the database is changed only by the
\* thread that has the connection; whenever a call is in progress some call
\* can take a step; and a delete_group that returns leaves the database it
\* found with its two statements done, and nothing else.
C32_ConnectionSerializes ==
    /\ [][ /\ \A t \in Callers :
               /\ (dblock' = t /\ dblock # t) =>
                     /\ dblock = NoCaller
                     /\ dpc[t] = "dlock" /\ dpc'[t] = "run"
               /\ (dpc'[t] = "dlock" /\ dpc[t] # "dlock") => dpc[t] = "idle"
               /\ (InStatements(t) /\ dpc'[t] # "idle") => (dblock' = t /\ InStatements(t)')
               /\ (dpc[t] # "idle" /\ dpc'[t] = "idle") =>
                     /\ dblock = t
                     /\ dblock' = NoCaller
           /\ store' # store =>
                 \E t \in Callers : dblock = t /\ InStatements(t) /\ dpc'[t] # dpc[t]
        ]_vars
    /\ [](\A t \in Callers : InStatements(t) <=> dblock = t)
    /\ []((\E t \in Callers : dpc[t] # "idle") =>
             ENABLED (\E t \in Callers : DbAcquire(t) \/ Statement(t)))
    /\ [](dlast.call.op = "delete_group" =>
             dlast.after =
               [dlast.call.before EXCEPT !.profiles = ClearGroup(@, dlast.call.id),
                                         !.groups = Without(@, dlast.call.id)])

\* C32's case: a thread is between the two statements of delete_group(g1),
\* the profiles cleared and the group still stored, while another thread,
\* which would put p1 into g1 again, waits for the connection.
C32_Witness ==
    \E t, u \in Callers :
        /\ dpc[t] = "delete"
        /\ dcall[t].id = "g1"
        /\ dblock = t
        /\ store.profiles = ClearGroup(FullStore.profiles, "g1")
        /\ "g1" \in Ids(store.groups)
        /\ dpc[u] = "dlock"
        /\ dcall[u].op = "update"

\* A delete_profile, delete_proxy or delete_workflow that returned: Ok, its
\* table without the row of the id, every other table as it was (a profile
\* that named the proxy names it still).
DeleteLeavesReferences ==
    dlast.call.op = "delete" =>
        /\ dlast.ret = DbOk(<<>>)
        /\ dlast.after =
              [dlast.call.before EXCEPT ![dlast.call.kind] = Without(@, dlast.call.id)]
        /\ dlast.call.id \notin Ids(dlast.call.before[dlast.call.kind]) =>
              dlast.after = dlast.call.before

\* A delete_group of an id no group has: Ok, and the tables as they were but
\* for the group_id of profiles that named the id.
DeleteNoGroup ==
    (/\ dlast.call.op = "delete_group"
     /\ dlast.call.id \notin Ids(dlast.call.before.groups)) =>
        /\ dlast.ret = DbOk(<<>>)
        /\ dlast.after =
              [dlast.call.before EXCEPT !.profiles = ClearGroup(@, dlast.call.id)]

\* An update_profile of a stored profile: Ok, and the stored profile has the
\* given group_id and proxy_id, whether or not a group or proxy has them.
UpdateAcceptsReferences ==
    (dlast.call.op = "update" /\ dlast.call.kind = "profiles") =>
        /\ dlast.ret = DbOk(<<>>)
        /\ \A n \in 1..Len(dlast.after.profiles) :
              dlast.after.profiles[n].id = dlast.call.row.id =>
                /\ dlast.after.profiles[n].group_id = dlast.call.row.group_id
                /\ dlast.after.profiles[n].proxy_id = dlast.call.row.proxy_id

\* A create_profile of an id no profile has: Ok, and the profile is stored as
\* given, whether or not a group or proxy has its group_id and proxy_id.
CreateAcceptsReferences ==
    (/\ dlast.call.op = "create"
     /\ dlast.call.kind = "profiles"
     /\ dlast.call.row.id \notin Ids(dlast.call.before.profiles)) =>
        /\ dlast.ret = DbOk(<< dlast.call.row >>)
        /\ dlast.after.profiles = Append(dlast.call.before.profiles, dlast.call.row)

\* C33: no method but delete_group looks at another table than its own:
\* delete_proxy leaves the profiles as they are, a delete of an id that is not
\* stored leaves the database as it is, and create_profile and update_profile
\* store a group_id or proxy_id that names no stored row.
C33_NoReferencesMaintained ==
    /\ DeleteLeavesReferences
    /\ DeleteNoGroup
    /\ UpdateAcceptsReferences
    /\ CreateAcceptsReferences

====
